---- MODULE Spec2Model ----
(***************************************************************************)
(* A model of the Car-Resource-Crawler: the image catalog kept by          *)
(* ImageResourceService, the crawl pipelines of BingCrawler (GoogleCrawler *)
(* and WebScapingWorker.crawl follow the same pipeline) and of             *)
(* PexelsCarCrawler, the retrying fetchers, the start, status and stop    *)
(* routes with the background task they drive, the request clock of       *)
(* PexelsCarCrawler, and the helpers of the crawlers: URL extraction, the  *)
(* content probe, extension inference, the wait between attempts, the      *)
(* lookup of a saved URL and the totals of crawl_multiple_sources.         *)
(*                                                                         *)
(* Crawl runs are asyncio coroutines on one event loop: a run gives up the *)
(* loop only at an await, so the steps between two awaits of one run are   *)
(* never interleaved with another run.  The REST endpoints of              *)
(* routes/image_resources.py are plain functions run on worker threads:    *)
(* they interleave with everything.                                        *)
(***************************************************************************)
EXTENDS Integers, Sequences, FiniteSets, TLC

VARIABLES
    catalog,    \* the rows of table image_resources
    nextId,     \* the next fresh primary key (uuid4 never repeats)
    run,        \* per crawler: the state of its crawl coroutine
    last,       \* the last call made on the service through the REST layer
    fetch,      \* the state of one Fetcher call
    world,      \* what a behaviour is about: its image URLs, its crawlers
    job,        \* per crawler: the status dictionary and task of its routes
    rate,       \* the request clock of one PexelsCarCrawler
    helper      \* one call of a crawler's helper function: its inputs, its result

vars == <<catalog, nextId, run, last, fetch, world, job, rate, helper>>

(***************************************************************************)
(* Bounds of the model.                                                    *)
(***************************************************************************)
NumUrls == 2        \* distinct image URLs one crawler alone can meet
RaceUrls == 1       \* distinct image URLs two concurrent crawlers can meet
MaxLinks == 2       \* largest max_links a start request passes
MaxRetries == 3     \* largest max_retries a Fetcher call is given
MaxRequests == 5    \* requests after which the model stops following a fetch

URLS == world.urls
NoId == 0
None == "None"

Min(a, b) == IF a < b THEN a ELSE b
Max(a, b) == IF a > b THEN a ELSE b

(***************************************************************************)
(* The catalog: ImageResourceModel and ImageResourceService.               *)
(***************************************************************************)

\* A new row: the column defaults of ImageResourceModel.
ImageResourceModel(id, url) ==
    [id |-> id, url |-> url, is_downloaded |-> FALSE,
     download_status |-> "pending", error_message |-> None]

\* The unique constraint on column url.
UniqueViolation(cat, url) == \E rec \in cat : rec.url = url

\* create_image_resource without the unique constraint (a plain insert).
create_image_resource_no_unique(cat, id, url, dbOk) ==
    IF dbOk
    THEN [cat |-> cat \cup {ImageResourceModel(id, url)}, id |-> id, raised |-> None]
    ELSE [cat |-> cat, id |-> NoId, raised |-> "OperationalError"]

\* ImageResourceService.create_image_resource: add, commit, refresh; on any
\* exception roll back and re-raise.  dbOk = FALSE is a store that cannot
\* be reached.
create_image_resource(cat, id, url, dbOk) ==
    IF ~dbOk
    THEN [cat |-> cat, id |-> NoId, raised |-> "OperationalError"]
    ELSE IF UniqueViolation(cat, url)
    THEN [cat |-> cat, id |-> NoId, raised |-> "IntegrityError"]
    ELSE [cat |-> cat \cup {ImageResourceModel(id, url)}, id |-> id, raised |-> None]

\* ImageResourceService.get_image_resource_by_url: the id of the row, or NoId.
get_image_resource_by_url(cat, url) ==
    IF \E rec \in cat : rec.url = url
    THEN (CHOOSE rec \in cat : rec.url = url).id
    ELSE NoId

\* ImageResourceService.update_download_status: an unconditional UPDATE of
\* the row with that id.
update_download_status(cat, id, status, error_message) ==
    { IF rec.id = id
      THEN [rec EXCEPT !.download_status = status,
                       !.is_downloaded = IF status = "completed" THEN TRUE ELSE @,
                       !.error_message = IF status = "failed" THEN error_message ELSE @]
      ELSE rec : rec \in cat }

(***************************************************************************)
(* The crawl pipelines.                                                    *)
(***************************************************************************)
Crawlers == {"bing", "pexels"}

\* The crawlers with a start route: WebScapingWorker.crawl is the pipeline
\* of BingCrawler.crawl behind the routes of routes/web_scraping.py.
Workers == Crawlers \cup {"web"}

\* Python's urls[:n].
Slice(s, n) ==
    IF n >= 0 THEN SubSeq(s, 1, Min(n, Len(s)))
    ELSE SubSeq(s, 1, Max(0, Len(s) + n))

\* The candidate lists a source can return: _extract_urls_from_html returns
\* no URL twice.
Pages == { s \in UNION { [1..n -> URLS] : n \in 0..Cardinality(URLS) } :
             \A i, j \in 1..Len(s) : i # j => s[i] # s[j] }

\* The steps of a run that are followed by another step without an await.
SyncPcs == {"check", "save", "mark"}

\* r may take a step: no other coroutine is in the middle of a run of steps.
LoopFree(r) ==
    /\ r \in world.crawlers
    /\ \A o \in Crawlers \ {r} : run[o].pc \notin SyncPcs

\* self.stats of a crawler, as __init__ sets it (the counters the pipeline
\* writes; found_urls and unique_urls belong to the extraction).
InitStats(r) ==
    IF r = "pexels"
    THEN [successful_downloads |-> 0, failed_downloads |-> 0, errors |-> 0]
    ELSE [image_candidates |-> 0, saved_records |-> 0, downloaded |-> 0, errors |-> 0]

InitRun(r) ==
    [pc |-> "idle", max_links |-> 0, urls |-> <<>>, idx |-> 0,
     image_id |-> NoId, ok |-> FALSE,
     content_type |-> None,
     stats |-> InitStats(r), saved |-> 0, downloaded |-> 0, result |-> None,
     \* history of the run, read by the properties only
     exists_result |-> FALSE, had_record |-> FALSE, save_raised |-> None,
     created |-> {}]

\* _check_image_exists: a lookup that raises counts as "not there".
_check_image_exists(cat, url, dbOk) ==
    IF dbOk THEN get_image_resource_by_url(cat, url) # NoId ELSE FALSE


\* The run moves on after its last candidate: the invocation returns (of a
\* Pexels crawl, one page of one query is followed).
EndOfPage(rec, r) == [rec EXCEPT !.pc = "done", !.result = "success"]

\* The names the loop body binds, before the body has run.
Fresh(rec) ==
    [rec EXCEPT !.image_id = NoId, !.ok = FALSE, !.content_type = None,
                !.exists_result = FALSE, !.had_record = FALSE, !.save_raised = None]

\* The for loop takes its next element, or ends.
NextCandidate(rec, r) ==
    IF rec.idx < Len(rec.urls)
    THEN [Fresh(rec) EXCEPT !.pc = "check", !.idx = @ + 1]
    ELSE EndOfPage(Fresh(rec), r)

\* The values of max_links the start endpoint accepts: any integer.
MaxLinksValues == (0 - 1)..MaxLinks

\* crawl / crawl_car_images is entered and awaits its source fetch.
Start(r) ==
    /\ run[r].pc = "idle"
    /\ LoopFree(r)
    /\ \/ /\ r = "bing"
          /\ \E n \in MaxLinksValues :
               run' = [run EXCEPT ![r] = [@ EXCEPT !.pc = "fetching", !.max_links = n]]
       \/ /\ r = "pexels"
          /\ run' = [run EXCEPT ![r] = [@ EXCEPT !.pc = "fetching"]]
    /\ UNCHANGED <<catalog, nextId, last, fetch, world, job, rate, helper>>

\* The candidates of a fetched page enter the loop.
EnterLoop(rec, r, cands) ==
    IF Len(cands) = 0
    THEN EndOfPage([rec EXCEPT !.urls = cands, !.idx = 0], r)
    ELSE [rec EXCEPT !.urls = cands, !.idx = 1, !.pc = "check"]

\* BingCrawler.crawl after fetch_bing_html returned: one GET, no retry.
BingFetched(rec, outcome, page) ==
    CASE outcome = "200" ->
           EnterLoop([rec EXCEPT !.stats.image_candidates = Len(page)], "bing",
                     Slice(page, rec.max_links))
      [] outcome = "non200" ->
           [rec EXCEPT !.pc = "done", !.result = "failed_to_fetch_html"]
      [] OTHER ->
           [rec EXCEPT !.pc = "done", !.result = "failed_to_fetch_html",
                       !.stats.errors = @ + 1]

\* crawl_car_images after search_cars returned: search_cars tries three
\* URLs, each failed _make_request counts one error; k of them failed.
PexelsSearched(rec, k, photos) ==
    LET counted == [rec EXCEPT !.stats.errors = @ + k] IN
    IF k = 3 THEN EndOfPage(counted, "pexels")
    ELSE IF Len(photos) = 0 THEN [counted EXCEPT !.pc = "done", !.result = "success"]
    ELSE EnterLoop(counted, "pexels", photos)

FetchReturns(r) ==
    /\ run[r].pc = "fetching"
    /\ LoopFree(r)
    /\ \/ /\ r = "bing"
          /\ \E outcome \in {"200", "non200", "exception"}, page \in Pages :
               /\ outcome # "200" => page = <<>>
               /\ run' = [run EXCEPT ![r] = BingFetched(@, outcome, page)]
       \/ /\ r = "pexels"
          /\ \E k \in 0..3, photos \in Pages :
               /\ k = 3 => photos = <<>>
               /\ run' = [run EXCEPT ![r] = PexelsSearched(@, k, photos)]
    /\ UNCHANGED <<catalog, nextId, last, fetch, world, job, rate, helper>>

\* The existence check of the current candidate.
Checked(rec, r, cat, dbOk) ==
    LET url == rec.urls[rec.idx]
        found == _check_image_exists(cat, url, dbOk)
        seen == [rec EXCEPT !.exists_result = found,
                            !.had_record = UniqueViolation(cat, url)]
    IN  IF found THEN NextCandidate(seen, r)
        ELSE IF r = "pexels" THEN [seen EXCEPT !.pc = "save"]
        ELSE [seen EXCEPT !.pc = "probing"]

Check(r) ==
    /\ run[r].pc = "check"
    /\ LoopFree(r)
    /\ \E dbOk \in BOOLEAN :
         run' = [run EXCEPT ![r] = Checked(@, r, catalog, dbOk)]
    /\ UNCHANGED <<catalog, nextId, last, fetch, world, job, rate, helper>>

\* What _head_content_type can return.
ContentTypes == {"image/jpeg", "text/html", None}

IsImage(content_type) == content_type = "image/jpeg"

\* BingCrawler.crawl after _head_content_type returned.
Probed(rec, r, content_type) ==
    IF IsImage(content_type)
    THEN [rec EXCEPT !.pc = "save", !.content_type = content_type]
    ELSE NextCandidate([rec EXCEPT !.content_type = content_type], r)

ProbeReturns(r) ==
    /\ run[r].pc = "probing"
    /\ LoopFree(r)
    /\ \E content_type \in ContentTypes :
         run' = [run EXCEPT ![r] = Probed(@, r, content_type)]
    /\ UNCHANGED <<catalog, nextId, last, fetch, world, job, rate, helper>>


\* _save_image_record and what the loop does with its result.  The Bing
\* record is saved, counted and its download awaited; a failed save counts
\* an error and the loop goes to its sleep.  The Pexels loop counts no error
\* and awaits the download whether or not the record was saved.
Saved(rec, r, res) ==
    LET tried == [rec EXCEPT !.save_raised = res.raised, !.image_id = res.id]
        kept == [tried EXCEPT !.pc = "downloading",
                              !.created = @ \cup {res.id},
                              !.saved = @ + 1]
    IN  IF r = "pexels"
        THEN IF res.id # NoId THEN kept ELSE [tried EXCEPT !.pc = "downloading"]
        ELSE IF res.id # NoId THEN [kept EXCEPT !.stats.saved_records = @ + 1]
        ELSE [tried EXCEPT !.pc = "sleeping", !.stats.errors = @ + 1]

Save(r) ==
    /\ run[r].pc = "save"
    /\ LoopFree(r)
    /\ \E dbOk \in BOOLEAN :
         LET res == create_image_resource(catalog, nextId, run[r].urls[run[r].idx], dbOk) IN
         /\ catalog' = res.cat
         /\ nextId' = IF res.id # NoId THEN nextId + 1 ELSE nextId
         /\ run' = [run EXCEPT ![r] = Saved(@, r, res)]
    /\ UNCHANGED <<last, fetch, world, job, rate, helper>>

\* _download_image / download_image returned: the GET answered 200 and the
\* body was written, or it answered another status, or something raised.
Downloaded(rec, r, outcome) ==
    LET counted ==
          IF r # "pexels"
          THEN CASE outcome = "200" -> [rec EXCEPT !.ok = TRUE, !.stats.downloaded = @ + 1]
                 [] outcome = "non200" -> [rec EXCEPT !.ok = FALSE]
                 [] OTHER -> [rec EXCEPT !.ok = FALSE, !.stats.errors = @ + 1]
          ELSE IF outcome = "200"
               THEN [rec EXCEPT !.ok = TRUE, !.stats.successful_downloads = @ + 1]
               ELSE [rec EXCEPT !.ok = FALSE, !.stats.failed_downloads = @ + 1]
    IN  IF counted.image_id # NoId
        THEN [counted EXCEPT !.pc = "mark"]
        ELSE [counted EXCEPT !.pc = "sleeping"]

DownloadReturns(r) ==
    /\ run[r].pc = "downloading"
    /\ LoopFree(r)
    /\ \E outcome \in {"200", "non200", "exception"} :
         run' = [run EXCEPT ![r] = Downloaded(@, r, outcome)]
    /\ UNCHANGED <<catalog, nextId, last, fetch, world, job, rate, helper>>

\* The status update with no except clause around it: an update that raises
\* ends the invocation.
Marked_uncaught(rec, r, dbOk) ==
    IF dbOk
    THEN [rec EXCEPT !.pc = "sleeping", !.downloaded = IF rec.ok THEN @ + 1 ELSE @]
    ELSE [rec EXCEPT !.pc = "done", !.result = "error"]

\* The status update after the download.  Bing counts the download before
\* the update, Pexels after it; an update that raises is caught by the
\* loop's except, which counts an error and takes the next candidate.
Marked(rec, r, dbOk) ==
    LET before == IF r # "pexels" /\ rec.ok THEN [rec EXCEPT !.downloaded = @ + 1] ELSE rec IN
    IF dbOk
    THEN [before EXCEPT !.pc = "sleeping",
                        !.downloaded = IF r = "pexels" /\ rec.ok THEN @ + 1 ELSE @]
    ELSE NextCandidate([before EXCEPT !.stats.errors = @ + 1], r)

Mark(r) ==
    /\ run[r].pc = "mark"
    /\ LoopFree(r)
    /\ \E dbOk \in BOOLEAN :
         /\ catalog' = IF dbOk
                       THEN update_download_status(catalog, run[r].image_id,
                                IF run[r].ok THEN "completed" ELSE "failed", "Download failed")
                       ELSE catalog
         /\ run' = [run EXCEPT ![r] = Marked(@, r, dbOk)]
    /\ UNCHANGED <<nextId, last, fetch, world, job, rate, helper>>

\* The polite delay between candidates is over.
SleepDone(r) ==
    /\ run[r].pc = "sleeping"
    /\ LoopFree(r)
    /\ run' = [run EXCEPT ![r] = NextCandidate(@, r)]
    /\ UNCHANGED <<catalog, nextId, last, fetch, world, job, rate, helper>>

\* The places a run awaits at: a task is cancelled only there.
AwaitPcs == {"fetching", "probing", "downloading", "sleeping"}

\* stop_*: task.cancel() raises CancelledError at the await the run is at;
\* it is no Exception, so no except clause of the crawler catches it.
Cancel(r) ==
    /\ run[r].pc \in AwaitPcs
    /\ LoopFree(r)
    /\ run' = [run EXCEPT ![r] = [@ EXCEPT !.pc = "cancelled"]]
    /\ UNCHANGED <<catalog, nextId, last, fetch, world, job, rate, helper>>

(***************************************************************************)
(* The REST layer, routes/image_resources.py.                              *)
(***************************************************************************)

\* POST /image-resources/: 400 when the URL is there, else the insert.
create_image_resource_route(cat, id, url) ==
    IF get_image_resource_by_url(cat, url) # NoId
    THEN [cat |-> cat, id |-> NoId, raised |-> "HTTP400"]
    ELSE create_image_resource(cat, id, url, TRUE)

CreateRoute(url) ==
    LET res == create_image_resource_route(catalog, nextId, url) IN
    /\ catalog' = res.cat
    /\ nextId' = IF res.id # NoId THEN nextId + 1 ELSE nextId
    /\ UNCHANGED <<run, fetch, world, job, rate, helper>>

\* bulk_create_image_resources committing row by row: the rows before the
\* first failing one stay.
RECURSIVE bulk_create_image_resources_row_by_row(_, _, _)
bulk_create_image_resources_row_by_row(cat, id, urlList) ==
    IF urlList = <<>> THEN [cat |-> cat, n |-> 0, raised |-> None]
    ELSE IF UniqueViolation(cat, Head(urlList))
    THEN [cat |-> cat, n |-> 0, raised |-> "IntegrityError"]
    ELSE LET rest == bulk_create_image_resources_row_by_row(
                         cat \cup {ImageResourceModel(id, Head(urlList))}, id + 1, Tail(urlList))
         IN  [cat |-> rest.cat, n |-> rest.n + 1, raised |-> rest.raised]

\* bulk_create_image_resources: add_all and one commit; any failing row
\* rolls the whole transaction back.
bulk_create_image_resources(cat, id, urlList) ==
    IF \/ \E i \in 1..Len(urlList) : UniqueViolation(cat, urlList[i])
       \/ \E i, j \in 1..Len(urlList) : i # j /\ urlList[i] = urlList[j]
    THEN [cat |-> cat, n |-> 0, raised |-> "IntegrityError"]
    ELSE [cat |-> cat \cup { ImageResourceModel(id + i - 1, urlList[i]) : i \in 1..Len(urlList) },
          n |-> Len(urlList), raised |-> None]

\* The lists a bulk request can carry: any URLs, repeated or not.
BulkLists == UNION { [1..n -> URLS] : n \in 1..Max(2, Cardinality(URLS)) }

BulkRoute(urlList) ==
    LET res == bulk_create_image_resources(catalog, nextId, urlList) IN
    /\ catalog' = res.cat
    /\ nextId' = nextId + res.n
    /\ UNCHANGED <<run, fetch, world, job, rate, helper>>

(***************************************************************************)
(* The crawl specification: two crawlers and the record-creating requests. *)
(***************************************************************************)
NoCall == [op |-> None]

\* The module globals of a crawler's routes before any start request: the
\* status dictionary, the task (none, alive, cancelling, closing, done) and
\* the instance, with the locals of run_crawler and the place of the stop
\* handler.
NoJob ==
    [is_running |-> FALSE, task |-> "none", instance |-> FALSE,
     stop |-> "idle", cancel |-> FALSE, leaving |-> FALSE, outcome |-> None,
     stopped |-> FALSE, crawls |-> 0,
     loops |-> 0, max_links |-> 0, i |-> 0,
     cumulative_saved |-> 0, cumulative_downloaded |-> 0,
     progress |-> [saved |-> 0, downloaded |-> 0],
     status |-> None, error |-> None, final_result |-> None]

\* No request clock is being followed.
NoRate == [pc |-> "off"]
\* No helper call is being followed.
NoHelper == [pc |-> "off"]
\* No fetch call is being followed.
NoFetch ==
    [pc |-> "off", op |-> None, max_retries |-> 0, attempt |-> 0, requests |-> 0,
     url_idx |-> 0, seen |-> <<>>, body |-> None, result |-> None, raised |-> None,
     stats |-> [errors |-> 0]]

Init ==
    /\ catalog = {}
    /\ nextId = 1
    /\ run = [r \in Workers |-> InitRun(r)]
    /\ last = NoCall
    /\ fetch = NoFetch
    /\ job = [r \in Workers |-> NoJob]
    /\ rate = NoRate
    /\ helper = NoHelper
    /\ world = [urls |-> 1..RaceUrls, crawlers |-> Crawlers]

\* One crawler alone, with the record-creating requests.
InitSolo ==
    /\ catalog = {}
    /\ nextId = 1
    /\ run = [r \in Workers |-> InitRun(r)]
    /\ last = NoCall
    /\ fetch = NoFetch
    /\ job = [r \in Workers |-> NoJob]
    /\ rate = NoRate
    /\ helper = NoHelper
    /\ world \in { [urls |-> 1..NumUrls, crawlers |-> {c}] : c \in Crawlers }

StopRequest == \E r \in world.crawlers : Cancel(r)

CreateRequest == \E url \in URLS : CreateRoute(url) /\ catalog' # catalog /\ UNCHANGED last

BulkRequest == \E urlList \in BulkLists : BulkRoute(urlList) /\ catalog' # catalog /\ UNCHANGED last

Next ==
    \/ \E r \in world.crawlers : Start(r)
    \/ \E r \in world.crawlers : FetchReturns(r)
    \/ \E r \in world.crawlers : Check(r)
    \/ \E r \in world.crawlers : ProbeReturns(r)
    \/ \E r \in world.crawlers : Save(r)
    \/ \E r \in world.crawlers : DownloadReturns(r)
    \/ \E r \in world.crawlers : Mark(r)
    \/ \E r \in world.crawlers : SleepDone(r)
    \/ CreateRequest
    \/ BulkRequest

\* Two crawlers race.  A cancelled run is a run that takes no further step,
\* which every behaviour of Spec already allows: the stop request is left
\* to the specification of one crawler.
Spec == Init /\ [][Next]_vars

NextSolo == Next \/ StopRequest

SpecSolo == InitSolo /\ [][NextSolo]_vars

(***************************************************************************)
(* The store specification: the REST endpoints of the catalog, called in   *)
(* any order; `last` holds the call that was answered last.                *)
(***************************************************************************)
MaxRecords == 3     \* records the store specification creates

\* The status strings a PATCH can carry: the parameter is a free string.
StatusValues == {"pending", "downloading", "completed", "failed", "bogus"}

ErrorMessages == {None, "Download failed"}

RecordOf(cat, id) == CHOOSE rec \in cat : rec.id = id

HasId(cat, id) == \E rec \in cat : rec.id = id

\* delete_image_resource: DELETE ... WHERE id = image_id.
delete_image_resource(cat, id) == { rec \in cat : rec.id # id }

StoreCreate(url) ==
    /\ nextId <= MaxRecords
    /\ CreateRoute(url)
    /\ last' = [op |-> "create_image_resource", url |-> url,
                ret |-> get_image_resource_by_url(catalog', url),
                status |-> IF catalog' # catalog THEN 200 ELSE 400]

StoreBulk(urlList) ==
    /\ nextId + Len(urlList) - 1 <= MaxRecords
    /\ BulkRoute(urlList)
    /\ last' = [op |-> "bulk_create_image_resources", urls |-> urlList,
                status |-> IF catalog' # catalog THEN 200 ELSE 500]

\* PATCH /image-resources/{id}/download-status: 404 when no row was updated.
StorePatch(id, status, error_message) ==
    /\ catalog' = update_download_status(catalog, id, status, error_message)
    /\ last' = [op |-> "update_download_status", id |-> id, to |-> status,
                before |-> IF HasId(catalog, id) THEN RecordOf(catalog, id).download_status
                           ELSE None,
                status |-> IF HasId(catalog, id) THEN 200 ELSE 404]
    /\ UNCHANGED <<nextId, run, fetch, world, job, rate, helper>>

\* DELETE /image-resources/{id}: 404 when no row was deleted.
StoreDelete(id) ==
    /\ catalog' = delete_image_resource(catalog, id)
    /\ last' = [op |-> "delete_image_resource", id |-> id,
                status |-> IF HasId(catalog, id) THEN 200 ELSE 404]
    /\ UNCHANGED <<nextId, run, fetch, world, job, rate, helper>>

\* The fields of ImageResourceUpdate that the records of the model carry.
UpdateFields == {"is_downloaded", "download_status", "error_message"}

\* A schema that lets the URL through.
ImageResourceUpdate_with_url(body) ==
    [f \in DOMAIN body \cap (UpdateFields \cup {"url"}) |-> body[f]]

\* ImageResourceUpdate parsed from a request body, then
\* .dict(exclude_unset=True): the fields of the schema that the body sets;
\* pydantic ignores every other key of the body.
ImageResourceUpdate(body) == [f \in DOMAIN body \cap UpdateFields |-> body[f]]

\* update_image_resource: setattr of every field of update_dict on the row.
update_image_resource(cat, id, update_dict) ==
    { IF rec.id = id
      THEN [f \in DOMAIN rec |-> IF f \in DOMAIN update_dict THEN update_dict[f] ELSE rec[f]]
      ELSE rec : rec \in cat }

\* The JSON bodies a PUT carries.
PutBodies ==
    { [is_downloaded |-> FALSE], [download_status |-> "completed"] }
        \cup { [url |-> url] : url \in URLS }

\* PUT /image-resources/{id}: 404 when there is no such row.
StorePut(id, body) ==
    /\ catalog' = update_image_resource(catalog, id, ImageResourceUpdate(body))
    /\ last' = [op |-> "update_image_resource", id |-> id, keys |-> DOMAIN body,
                status |-> IF HasId(catalog, id) THEN 200 ELSE 404]
    /\ UNCHANGED <<nextId, run, fetch, world, job, rate, helper>>

InitStore ==
    /\ catalog = {}
    /\ nextId = 1
    /\ run = [r \in Workers |-> InitRun(r)]
    /\ last = NoCall
    /\ fetch = NoFetch
    /\ job = [r \in Workers |-> NoJob]
    /\ rate = NoRate
    /\ helper = NoHelper
    /\ world = [urls |-> 1..NumUrls, crawlers |-> {}]

NextStore ==
    \/ \E url \in URLS : StoreCreate(url)
    \/ \E urlList \in BulkLists : StoreBulk(urlList)
    \/ \E id \in 1..MaxRecords, status \in StatusValues, error_message \in ErrorMessages :
         StorePatch(id, status, error_message)
    \/ \E id \in 1..MaxRecords : StoreDelete(id)

SpecStore == InitStore /\ [][NextStore]_vars

\* One record's life: the requests that create, update and delete it.
MaxUpdated == 1     \* records the update specification creates

UpdateCreate(url) ==
    /\ nextId <= MaxUpdated
    /\ CreateRoute(url)
    /\ last' = [op |-> "create_image_resource", url |-> url,
                status |-> IF catalog' # catalog THEN 200 ELSE 400]

NextUpdate ==
    \/ \E url \in URLS : UpdateCreate(url)
    \/ \E id \in 1..MaxUpdated, status \in StatusValues, error_message \in ErrorMessages :
         StorePatch(id, status, error_message)
    \/ \E id \in 1..MaxUpdated, body \in PutBodies : StorePut(id, body)
    \/ \E id \in 1..MaxUpdated : StoreDelete(id)

SpecUpdate == InitStore /\ [][NextUpdate]_vars

\* The requests that add records, one by one and in bulk, and delete them.
NextBulk ==
    \/ \E url \in URLS : StoreCreate(url)
    \/ \E urlList \in BulkLists : StoreBulk(urlList)
    \/ \E id \in 1..MaxRecords : StoreDelete(id)

SpecBulk == InitStore /\ [][NextBulk]_vars

(***************************************************************************)
(* The fetch specification: one call of a fetch operation, the server      *)
(* answering each request with any status.  `fetch.requests` counts the    *)
(* HTTP requests issued, `fetch.seen` lists the answers.                   *)
(***************************************************************************)
WebOps == {"fetch_html", "_fetch_vecteezy_html"}

PexelsOps == {"_make_request", "search_cars"}

\* What a request can end in: a status code, or an exception of the client.
Answers == {"200", "307", "403", "404", "429", "500", "501", "exception"}

\* What a 200 carries: a body, an empty one (falsy), or one that is no JSON.
Bodies == {"body", "empty", "invalid"}

\* The number of URLs search_cars tries in turn (possible_urls).
PossibleUrls == 3

\* The counters of self.stats a fetch writes.
FetchStats(op) ==
    IF op \in PexelsOps THEN [total_requests |-> 0, errors |-> 0] ELSE [errors |-> 0]

\* "if attempt < max_retries" in place of "if attempt < max_retries - 1".
HasRetry_off_by_one(attempt, max_retries) == attempt < max_retries

\* The guard of every retry branch of fetch_html and _fetch_vecteezy_html.
HasRetry(attempt, max_retries) == attempt < max_retries - 1

\* The call returns.
Returns(f, result) == [f EXCEPT !.pc = "done", !.result = result]

\* self.stats["errors"] += 1; return None
Fails(f) == Returns([f EXCEPT !.stats.errors = @ + 1], None)

\* "continue": the for loop over range(max_retries) issues the next request,
\* or is exhausted and the function ends in its last line, return None.
Continue(f) ==
    IF f.attempt + 1 < f.max_retries
    THEN [f EXCEPT !.attempt = @ + 1, !.requests = @ + 1]
    ELSE Returns(f, None)

\* A retry branch: retry while attempts are left, else count the error.
RetryOrFail(f) == IF HasRetry(f.attempt, f.max_retries) THEN Continue(f) ELSE Fails(f)

\* One pass of the loop of fetch_html after its request was answered.
fetch_html(f, answer, body) ==
    CASE answer = "200" -> Returns(f, body)
      [] answer \in {"403", "429", "500", "exception"} -> RetryOrFail(f)
      [] OTHER -> Fails(f)

\* One pass of the loop of _fetch_vecteezy_html: only 403 and exceptions
\* are retried.
_fetch_vecteezy_html(f, answer, body) ==
    CASE answer = "200" -> Returns(f, body)
      [] answer \in {"403", "exception"} -> RetryOrFail(f)
      [] OTHER -> Fails(f)

\* _make_request calls itself: total_requests is counted, the request sent.
Recurse(f) ==
    [f EXCEPT !.requests = @ + 1, !.attempt = @ + 1, !.stats.total_requests = @ + 1]

\* _make_request after its GET was answered; `f.result` is what the
\* outermost call returns.
_make_request(f, answer, location, body) ==
    CASE answer = "200" -> IF body = "invalid" THEN Fails(f) ELSE Returns(f, body)
      [] answer = "429" -> Recurse(f)
      [] answer = "307" /\ location -> Recurse(f)
      [] OTHER -> Fails(f)

\* search_cars: the loop over possible_urls around _make_request.
search_cars(f, answer, location, body) ==
    LET inner == _make_request(f, answer, location, body) IN
    IF inner.pc # "done" \/ inner.result = "body" THEN inner
    ELSE IF f.url_idx < PossibleUrls
    THEN [Recurse(inner) EXCEPT !.pc = "awaiting", !.attempt = 0, !.url_idx = @ + 1,
                                !.result = None]
    ELSE Returns(inner, None)

\* A fetch operation is called.  Without a client fetch_html and
\* _make_request raise; _fetch_vecteezy_html called on its own catches the
\* error of every pass of its loop and counts one error after the last.  A
\* loop over range(max_retries) with max_retries = 0 sends nothing.
FetchCall(op, max_retries, client) ==
    /\ fetch.pc = "off"
    /\ op \in PexelsOps => max_retries = 0
    /\ LET f == [NoFetch EXCEPT !.op = op, !.max_retries = max_retries,
                                !.stats = FetchStats(op)] IN
       fetch' =
         IF ~client /\ op # "_fetch_vecteezy_html"
         THEN [f EXCEPT !.pc = "done", !.raised = "RuntimeError"]
         ELSE IF ~client
         THEN IF max_retries > 0 THEN Fails(f) ELSE Returns(f, None)
         ELSE IF op \in WebOps
         THEN IF max_retries > 0
              THEN [f EXCEPT !.pc = "awaiting", !.requests = 1]
              ELSE Returns(f, None)
         ELSE [f EXCEPT !.pc = "awaiting", !.requests = 1, !.stats.total_requests = 1,
                        !.url_idx = IF op = "search_cars" THEN 1 ELSE 0]
    /\ UNCHANGED <<catalog, nextId, run, last, world, job, rate, helper>>

\* The request in flight is answered and the operation runs to its next
\* request or to its return.
FetchAnswered(answer, location, body) ==
    /\ fetch.pc = "awaiting"
    /\ location => answer = "307"
    /\ body # "body" => answer = "200"
    /\ body = "invalid" => fetch.op \in PexelsOps
    /\ LET f == [fetch EXCEPT !.seen = Append(@, answer),
                              !.body = IF answer = "200" THEN body ELSE @]
           g == CASE fetch.op = "fetch_html" -> fetch_html(f, answer, body)
                  [] fetch.op = "_fetch_vecteezy_html" -> _fetch_vecteezy_html(f, answer, body)
                  [] fetch.op = "_make_request" -> _make_request(f, answer, location, body)
                  [] OTHER -> search_cars(f, answer, location, body)
       IN  /\ g.requests <= MaxRequests
           /\ fetch' = g
    /\ UNCHANGED <<catalog, nextId, run, last, world, job, rate, helper>>

InitFetch ==
    /\ catalog = {}
    /\ nextId = 1
    /\ run = [r \in Workers |-> InitRun(r)]
    /\ last = NoCall
    /\ fetch = NoFetch
    /\ job = [r \in Workers |-> NoJob]
    /\ rate = NoRate
    /\ helper = NoHelper
    /\ world = [urls |-> {}, crawlers |-> {}]

NextFetch ==
    \/ \E op \in WebOps \cup PexelsOps, max_retries \in 0..MaxRetries, client \in BOOLEAN :
         FetchCall(op, max_retries, client)
    \/ \E answer \in Answers, location \in BOOLEAN, body \in Bodies :
         FetchAnswered(answer, location, body)

SpecFetch == InitFetch /\ [][NextFetch]_vars

(***************************************************************************)
(* The job specification: the start, status and stop routes of one crawler *)
(* kind and the background task a start request creates.  The handlers are *)
(* coroutines of the event loop the task runs on: each runs between two    *)
(* awaits of the task.                                                     *)
(***************************************************************************)
JobUrls == 1        \* distinct image URLs a started job can meet
MaxCrawls == 2      \* crawl invocations the model follows per crawler kind

\* The values of max_links the job specification starts a job with: none
\* of the candidates, or all of them.
JobMaxLinks == {0, MaxLinks}

\* The steps of a task that are followed by another step without an await:
\* those of the pipeline, and the return of crawl into run_crawler.
JobSyncPcs == SyncPcs \cup {"done"}

\* A request handler of r's routes may run: the task is at an await, and it
\* has taken its first step (scheduled before any later request is read).
HandlerMayRun(r) ==
    /\ r \in world.crawlers
    /\ run[r].pc \notin JobSyncPcs
    /\ job[r].task # "created"

\* get_pexels_config: what the settings hold for the Pexels crawler.
SecretKeys == {"unset", "set"}
BaseUrls == {"unset", "empty", "set"}

\* PexelsCarCrawler._validate_config.
_validate_config(w) == w.pexels_secret_key = "set" /\ w.pexels_base_url = "set"

\* The answer of a route is kept in last.
Answer(op, r, code) == [op |-> op, kind |-> r, status |-> code]

\* POST /<kind>/start: refused while is_running (and, for Pexels, without a
\* secret key); else the status dictionary is updated and the task created.
\* A request that would put a second pipeline beside a live one is not
\* followed, nor one whose max(1, loops) crawl invocations pass MaxCrawls.
JobStart(r, loops, max_links) ==
    /\ HandlerMayRun(r)
    /\ job[r].crawls + Max(1, loops) <= MaxCrawls
    /\ job[r].task \notin {"crawling"} \/ job[r].is_running
    /\ r # "bing" => loops = 1
    /\ r = "pexels" => max_links = MaxLinks
    /\ IF job[r].is_running \/ (r = "pexels" /\ world.pexels_secret_key # "set")
       THEN /\ last' = Answer("start", r, 400)
            /\ UNCHANGED job
       ELSE /\ last' = Answer("start", r, 200)
            /\ job' = [job EXCEPT ![r] =
                         [@ EXCEPT !.is_running = TRUE, !.task = "created",
                                   !.leaving = (job[r].task = "closing"),
                                   !.crawls = @ + Max(1, loops), !.outcome = None,
                                   !.stopped = IF job[r].stop = "woken" THEN @ ELSE FALSE,
                                   !.loops = loops, !.max_links = max_links,
                                   !.progress = [saved |-> 0, downloaded |-> 0]]]
    /\ UNCHANGED <<catalog, nextId, run, fetch, world, rate, helper>>

\* An earlier task, replaced while it was closing its client, ends: its
\* finally clause clears the instance global.
OldTaskEnds(r) ==
    /\ r \in world.crawlers
    /\ job[r].leaving
    /\ run[r].pc \notin JobSyncPcs
    /\ job' = [job EXCEPT ![r] = [@ EXCEPT !.leaving = FALSE, !.instance = FALSE]]
    /\ UNCHANGED <<catalog, nextId, run, last, fetch, world, rate, helper>>

\* except Exception of run_crawler, then finally.
Failed(j, e) ==
    [j EXCEPT !.is_running = FALSE, !.error = e, !.instance = FALSE, !.task = "done",
              !.outcome = "failed"]

\* The final status update of run_crawler, inside the async with.
Finished(j, r, rec) ==
    [j EXCEPT !.is_running = FALSE, !.final_result = rec.result,
              !.progress = IF r = "web" THEN [saved |-> rec.saved, downloaded |-> rec.downloaded]
                           ELSE @,
              !.task = "closing", !.outcome = "finished"]

\* crawl is called on the instance: the counters of the instance are kept,
\* the locals of crawl are new.
Called(rec, r, max_links) ==
    [InitRun(r) EXCEPT !.pc = "fetching", !.max_links = max_links,
                       !.stats = rec.stats, !.created = rec.created]

\* The first step of the task: the crawler is constructed and entered (or
\* that raises), and crawl is called and awaits its fetch.  A Pexels crawler
\* without a base URL fails in __init__, one with an empty base URL returns
\* an error result from crawl_car_images.
TaskBegins(r, entered) ==
    /\ r \in world.crawlers
    /\ job[r].task = "created"
    /\ job[r].stop # "woken"
    /\ IF ~entered \/ (r = "pexels" /\ world.pexels_base_url = "unset")
       THEN /\ job' = [job EXCEPT ![r] =
                         Failed([@ EXCEPT !.stopped = FALSE],
                                IF entered THEN "AttributeError" ELSE "error")]
            /\ UNCHANGED run
       ELSE IF r = "pexels" /\ ~_validate_config(world)
       THEN /\ run' = [run EXCEPT ![r] = [InitRun(r) EXCEPT !.pc = "returned",
                                                            !.result = "Invalid configuration"]]
            /\ job' = [job EXCEPT ![r] =
                         Finished([@ EXCEPT !.instance = TRUE, !.stopped = FALSE], r, run'[r])]
       ELSE /\ run' = [run EXCEPT ![r] = Called(InitRun(r), r, job[r].max_links)]
            /\ job' = [job EXCEPT ![r] = [@ EXCEPT !.instance = TRUE, !.task = "crawling",
                                                   !.stopped = FALSE, !.i = 0, !.cumulative_saved = 0,
                                                   !.cumulative_downloaded = 0]]
    /\ UNCHANGED <<catalog, nextId, last, fetch, world, rate, helper>>

\* The task is in crawl and no cancellation is waiting for it.
Crawling(r) == job[r].task = "crawling" /\ ~job[r].cancel

\* WebScapingWorker.crawl after fetch_html returned: the page, or nothing
\* with or without an error counted.
WebFetched(rec, outcome, page) ==
    CASE outcome = "200" ->
           EnterLoop([rec EXCEPT !.stats.image_candidates = Len(page)], "web",
                     Slice(page, rec.max_links))
      [] outcome = "empty" ->
           [rec EXCEPT !.pc = "done", !.result = "failed_to_fetch_html"]
      [] OTHER ->
           [rec EXCEPT !.pc = "done", !.result = "failed_to_fetch_html",
                       !.stats.errors = @ + 1]

WebFetchReturns(r) ==
    /\ r = "web"
    /\ run[r].pc = "fetching"
    /\ LoopFree(r)
    /\ \E outcome \in {"200", "empty", "failed"}, page \in Pages :
         /\ outcome # "200" => page = <<>>
         /\ run' = [run EXCEPT ![r] = WebFetched(@, outcome, page)]
    /\ UNCHANGED <<catalog, nextId, last, fetch, world, job, rate, helper>>

\* The Bing loop of run_crawler after a crawl returned.
Accumulated(j, rec) ==
    [j EXCEPT !.cumulative_saved = @ + rec.saved,
              !.cumulative_downloaded = @ + rec.downloaded,
              !.progress = [saved |-> j.cumulative_saved + rec.saved,
                            downloaded |-> j.cumulative_downloaded + rec.downloaded],
              !.i = @ + 1]

\* crawl returned into run_crawler: Bing takes the next of its max(1, loops)
\* iterations, or the final status is written and the async with is left.
CrawlReturned(r) ==
    /\ r \in world.crawlers
    /\ job[r].task = "crawling"
    /\ run[r].pc = "done"
    /\ IF r = "bing" /\ job[r].i + 1 < Max(1, job[r].loops)
       THEN /\ job' = [job EXCEPT ![r] = Accumulated(@, run[r])]
            /\ run' = [run EXCEPT ![r] = Called(@, r, job[r].max_links)]
       ELSE /\ job' = [job EXCEPT ![r] =
                         Finished(IF r = "bing" THEN Accumulated(@, run[r]) ELSE @, r, run[r])]
            /\ run' = [run EXCEPT ![r] = [@ EXCEPT !.pc = "returned"]]
    /\ UNCHANGED <<catalog, nextId, last, fetch, world, rate, helper>>

\* CancelledError caught where it is raised and counted as an error: the
\* run stays at its await.
Cancelled_swallowed(rec) == [rec EXCEPT !.stats.errors = @ + 1]

\* CancelledError is raised at the await the task is at.
Cancelled(rec) == [rec EXCEPT !.pc = "cancelled"]

\* The cancellation reaches the task in crawl: the error leaves crawl and
\* the async with starts closing the client.
CancelDelivered(r) ==
    /\ r \in world.crawlers
    /\ job[r].cancel
    /\ job[r].task = "crawling"
    /\ run[r].pc \in AwaitPcs
    /\ run' = [run EXCEPT ![r] = Cancelled(@)]
    /\ job' = [job EXCEPT ![r] = [@ EXCEPT !.cancel = FALSE, !.task = "closing",
                                           !.outcome = "cancelled"]]
    /\ UNCHANGED <<catalog, nextId, last, fetch, world, rate, helper>>

\* The except clauses of run_crawler for a task leaving by CancelledError:
\* only the Bing routes have one.
Unwound(j, r) ==
    IF j.outcome = "cancelled" /\ r = "bing"
    THEN [j EXCEPT !.is_running = FALSE, !.status = "stopped"]
    ELSE j

\* The task is done: the locals of crawl and the counters of the instance
\* are gone.  How the run ended, the records it created and the candidate
\* it was at are kept, for the properties to read.
Left(rec, r) ==
    [InitRun(r) EXCEPT !.pc = rec.pc, !.created = rec.created, !.image_id = rec.image_id]

\* __aexit__ is over: the except clause of the way the task leaves runs,
\* then finally, and the task is done; a stop handler awaiting it is woken.
TaskEnds(r) ==
    /\ r \in world.crawlers
    /\ job[r].task = "closing"
    /\ job' = [job EXCEPT ![r] =
                 [Unwound(@, r) EXCEPT !.task = "done", !.instance = FALSE,
                                       !.i = 0, !.cumulative_saved = 0,
                                       !.cumulative_downloaded = 0,
                                       !.stop = IF @ = "awaiting" THEN "woken" ELSE @]]
    /\ run' = [run EXCEPT ![r] = Left(@, r)]
    /\ UNCHANGED <<catalog, nextId, last, fetch, world, rate, helper>>

\* The stop handler awaits the task it cancelled until the task is done.
Awaited(j) == j.stop = "woken"

\* POST /<kind>/stop up to its await: refused unless is_running; a task that
\* is not done is cancelled and awaited.  One stop request is followed at a
\* time.
StopBegins(r) ==
    /\ HandlerMayRun(r)
    /\ job[r].stop = "idle"
    /\ IF ~job[r].is_running
       THEN /\ last' = Answer("stop", r, 400)
            /\ UNCHANGED job
       ELSE IF job[r].task \in {"crawling", "closing"}
       THEN /\ job' = [job EXCEPT ![r] = [@ EXCEPT !.stop = "awaiting",
                                                   !.cancel = (job[r].task = "crawling")]]
            /\ UNCHANGED last
       ELSE /\ job' = [job EXCEPT ![r] = [@ EXCEPT !.is_running = FALSE, !.status = "stopped"]]
            /\ last' = Answer("stop", r, 200)
    /\ UNCHANGED <<catalog, nextId, run, fetch, world, rate, helper>>

\* The stop handler after its await: the status is written and 200 answered.
StopReturns(r) ==
    /\ r \in world.crawlers
    /\ job[r].stop = "awaiting" \/ job[r].stop = "woken"
    /\ Awaited(job[r])
    /\ run[r].pc \notin JobSyncPcs
    /\ job' = [job EXCEPT ![r] = [@ EXCEPT !.stop = "idle", !.is_running = FALSE,
                                           !.status = "stopped", !.stopped = TRUE]]
    /\ last' = Answer("stop", r, 200)
    /\ UNCHANGED <<catalog, nextId, run, fetch, world, rate, helper>>

\* GET /<kind>/status (the Pexels and web routes): the counters of the live
\* instance are read while is_running, and copied into progress.
StatusQuery(r) ==
    /\ HandlerMayRun(r)
    /\ r # "bing"
    /\ LET current_stats == IF job[r].instance /\ job[r].is_running THEN run[r].stats ELSE None
           progress == IF ~(job[r].instance /\ job[r].is_running) THEN job[r].progress
                       ELSE IF r = "web"
                       THEN [saved |-> run[r].stats.saved_records,
                             downloaded |-> run[r].stats.downloaded]
                       ELSE [job[r].progress EXCEPT
                               !.downloaded = run[r].stats.successful_downloads]
       IN  /\ job' = [job EXCEPT ![r] = [@ EXCEPT !.progress = progress]]
           /\ last' = Answer("status", r, 200)
    /\ UNCHANGED <<catalog, nextId, run, fetch, world, rate, helper>>

InitJob ==
    /\ catalog = {}
    /\ nextId = 1
    /\ run = [r \in Workers |-> InitRun(r)]
    /\ last = NoCall
    /\ fetch = NoFetch
    /\ job = [r \in Workers |-> NoJob]
    /\ rate = NoRate
    /\ helper = NoHelper
    /\ world \in { [urls |-> 1..JobUrls, crawlers |-> {c},
                    pexels_secret_key |-> k, pexels_base_url |-> b] :
                   c \in Workers, k \in SecretKeys, b \in BaseUrls }
    /\ "pexels" \notin world.crawlers
         => world.pexels_secret_key = "set" /\ world.pexels_base_url = "set"

NextJob ==
    \/ \E r \in world.crawlers, loops \in 0..MaxCrawls, max_links \in JobMaxLinks :
         JobStart(r, loops, max_links)
    \/ \E r \in world.crawlers, entered \in BOOLEAN : TaskBegins(r, entered)
    \/ \E r \in world.crawlers : OldTaskEnds(r)
    \/ \E r \in world.crawlers : Crawling(r) /\ FetchReturns(r)
    \/ \E r \in world.crawlers : Crawling(r) /\ WebFetchReturns(r)
    \/ \E r \in world.crawlers : Crawling(r) /\ Check(r)
    \/ \E r \in world.crawlers : Crawling(r) /\ ProbeReturns(r)
    \/ \E r \in world.crawlers : Crawling(r) /\ Save(r)
    \/ \E r \in world.crawlers : Crawling(r) /\ DownloadReturns(r)
    \/ \E r \in world.crawlers : Crawling(r) /\ Mark(r)
    \/ \E r \in world.crawlers : Crawling(r) /\ SleepDone(r)
    \/ \E r \in world.crawlers : CrawlReturned(r)
    \/ \E r \in world.crawlers : CancelDelivered(r)
    \/ \E r \in world.crawlers : TaskEnds(r)
    \/ \E r \in world.crawlers : StopBegins(r)
    \/ \E r \in world.crawlers : StopReturns(r)
    \/ \E r \in world.crawlers : StatusQuery(r)

SpecJob == InitJob /\ [][NextJob]_vars

(***************************************************************************)
(* The rate specification: the requests one PexelsCarCrawler issues, on a  *)
(* clock of whole seconds.  Times are kept as ages, and an age is followed *)
(* up to request_frequency: beyond it the rate limit no longer tells ages  *)
(* apart.                                                                  *)
(***************************************************************************)
MaxFrequency == 2   \* largest request_frequency the settings give
MaxSends == 4       \* requests after which the model stops following the crawler

\* The sleep of _make_request after a 429 answer, in seconds.
RateLimitWait == 60

\* The age of what has not happened (last_request_time is None).
Never == 0 - 1

\* An age d seconds later.
Elapse(r, age, d) == IF age = Never THEN Never ELSE Min(age + d, r.request_frequency)

\* d seconds pass for the crawler.
Later(r, d) == [r EXCEPT !.since_sent = Elapse(r, @, d),
                         !.last_request_time = Elapse(r, @, d)]

\* A request goes out: gap is the time since the request before it.
Sent(r) == [r EXCEPT !.gap = r.since_sent, !.since_sent = 0, !.sends = @ + 1]

\* The rate limiting of _make_request: the sleep of the remainder, which
\* may overrun by over seconds, then the time stamp and the GET.
RateLimited(r, over) ==
    LET remainder == IF r.last_request_time # Never
                        /\ r.last_request_time < r.request_frequency
                     THEN r.request_frequency - r.last_request_time ELSE 0
        woken == IF remainder > 0 THEN Later(r, remainder + over) ELSE r
    IN  [Sent(woken) EXCEPT !.last_request_time = 0, !.pc = "api",
                            !.stats.total_requests = @ + 1]

\* PexelsCarCrawler() with the request_frequency of the settings.
RateInit(request_frequency) ==
    /\ rate.pc = "off"
    /\ rate' = [pc |-> "idle", request_frequency |-> request_frequency,
                last_request_time |-> Never, since_sent |-> Never, gap |-> Never,
                sends |-> 0, stats |-> [total_requests |-> 0, errors |-> 0]]
    /\ UNCHANGED <<catalog, nextId, run, last, fetch, world, job, helper>>

\* Time passes between two calls, or while an answer is awaited.
Tick ==
    /\ rate.pc \in {"idle", "api", "download"}
    /\ rate.since_sent # Never
    /\ rate' = Later(rate, 1)
    /\ rate' # rate
    /\ UNCHANGED <<catalog, nextId, run, last, fetch, world, job, helper>>

\* _make_request is called (by search_cars).
MakeRequest(over) ==
    /\ rate.pc = "idle"
    /\ rate.sends < MaxSends
    /\ rate' = RateLimited(rate, over)
    /\ UNCHANGED <<catalog, nextId, run, last, fetch, world, job, helper>>

\* The GET of _make_request is answered: 429 sleeps and calls _make_request
\* again, a 307 with a location calls it again at once, anything else
\* returns.
RequestAnswered(answer, over) ==
    /\ rate.pc = "api"
    /\ rate' = CASE answer = "429" /\ rate.sends < MaxSends ->
                      RateLimited(Later(rate, RateLimitWait), over)
                 [] answer = "307" /\ rate.sends < MaxSends ->
                      RateLimited(rate, over)
                 [] answer = "200" -> [rate EXCEPT !.pc = "idle"]
                 [] OTHER -> [rate EXCEPT !.pc = "idle", !.stats.errors = @ + 1]
    /\ UNCHANGED <<catalog, nextId, run, last, fetch, world, job, helper>>

\* download_image is called: its GET goes out at once.
DownloadImage ==
    /\ rate.pc = "idle"
    /\ rate.sends < MaxSends
    /\ rate' = [Sent(rate) EXCEPT !.pc = "download"]
    /\ UNCHANGED <<catalog, nextId, run, last, fetch, world, job, helper>>

\* The GET of download_image is answered and download_image returns.
DownloadAnswered ==
    /\ rate.pc = "download"
    /\ rate' = [rate EXCEPT !.pc = "idle"]
    /\ UNCHANGED <<catalog, nextId, run, last, fetch, world, job, helper>>

InitRate ==
    /\ catalog = {}
    /\ nextId = 1
    /\ run = [r \in Workers |-> InitRun(r)]
    /\ last = NoCall
    /\ fetch = NoFetch
    /\ job = [r \in Workers |-> NoJob]
    /\ rate = NoRate
    /\ helper = NoHelper
    /\ world = [urls |-> {}, crawlers |-> {}]

NextRate ==
    \/ \E request_frequency \in 1..MaxFrequency : RateInit(request_frequency)
    \/ Tick
    \/ \E over \in 0..1 : MakeRequest(over)
    \/ \E answer \in {"200", "307", "429", "500"}, over \in 0..1 : RequestAnswered(answer, over)
    \/ DownloadImage
    \/ DownloadAnswered

SpecRate == InitRate /\ [][NextRate]_vars

(***************************************************************************)
(* URL extraction and normalization: _extract_urls_from_html of           *)
(* BingCrawler, WebScapingWorker and GoogleCrawler.                        *)
(*                                                                         *)
(* A string is a sequence of tokens, each token named by the characters   *)
(* it stands for; the regular expressions, the replacements and the query *)
(* parsing are computed on the tokens as the code computes them on the    *)
(* characters.  No two adjacent tokens of a text join into a token.       *)
(***************************************************************************)
MaxOccurrences == 2

Extractors == {"bing", "web", "google"}

Scheme == "https://"
EscapedScheme == "https:\\/\\/"
QuotedScheme == "https%3A%2F%2F"
Quote == "\""
MurlField == "\"murl\":\""
Blank == " "

RECURSIVE Perms(_)
\* The orders in which iterating a Python set can yield its elements.
Perms(S) ==
    IF S = {} THEN {<<>>}
    ELSE UNION { { <<x>> \o p : p \in Perms(S \ {x}) } : x \in S }

Range(s) == { s[k] : k \in 1..Len(s) }

\* str.replace of each escape, one token at a time.
_unescape_bing_json_url(url) ==
    [k \in 1..Len(url) |->
        CASE url[k] = "\\/" -> "/"
          [] url[k] = EscapedScheme -> Scheme
          [] url[k] = "\\u0026" -> "&"
          [] url[k] = "&amp;" -> "&"
          [] OTHER -> url[k]]

_unescape_json_url(url) ==
    [k \in 1..Len(url) |->
        CASE url[k] = "\\u0027" -> "'"
          [] url[k] = "\\u0022" -> Quote
          [] OTHER -> _unescape_bing_json_url(url)[k]]

\* urllib.parse.unquote, which parse_qs applies once to a value.
unquote(value) ==
    [k \in 1..Len(value) |->
        CASE value[k] = QuotedScheme -> Scheme
          [] value[k] = "https%253A%252F%252F" -> QuotedScheme
          [] value[k] = "%2F" -> "/"
          [] value[k] = "%252F" -> "%2F"
          [] value[k] = "%2Flogo" -> "/logo"
          [] value[k] = "%3F" -> "?"
          [] value[k] = "%253F" -> "%3F"
          [] value[k] = "imgurl%3D" -> "imgurl="
          [] value[k] = "imgurl%253D" -> "imgurl%3D"
          [] OTHER -> value[k]]

\* The tokens a character class refuses: [^"] and [^\s'"<>].
NotInField == {Quote, MurlField}
NotInUrl == {Blank, Quote, MurlField, "'", "<", ">"}

RECURSIVE RunEnd(_, _, _)
\* The last position of the longest run from position i of tokens outside
\* stop; i - 1 when the run is empty.
RunEnd(s, i, stop) ==
    IF i > Len(s) \/ s[i] \in stop THEN i - 1 ELSE RunEnd(s, i + 1, stop)

RECURSIVE findall_murl(_, _)
\* re.findall(r'"murl":"(https://[^"]+)"', html) from position i on: the
\* captured group of each match with the position it starts at.
findall_murl(html, i) ==
    IF i + 3 > Len(html) THEN {}
    ELSE LET e == RunEnd(html, i + 2, NotInField)
         IN  IF /\ html[i] = MurlField
                /\ html[i + 1] = Scheme
                /\ e >= i + 2
                /\ e < Len(html)
                /\ html[e + 1] = Quote
             THEN {[pos |-> i + 1, url |-> SubSeq(html, i + 1, e)]}
                      \cup findall_murl(html, e + 2)
             ELSE findall_murl(html, i + 1)

RECURSIVE findall_https(_, _)
\* re.findall(r"https://[^\s'\"<>]+", html) from position i on.
findall_https(html, i) ==
    IF i + 1 > Len(html) THEN {}
    ELSE LET e == RunEnd(html, i + 1, NotInUrl)
         IN  IF html[i] = Scheme /\ e >= i + 1
             THEN {[pos |-> i, url |-> SubSeq(html, i, e)]}
                      \cup findall_https(html, e + 1)
             ELSE findall_https(html, i + 1)

\* str.startswith("http").
StartsWithHttp(url) ==
    /\ Len(url) > 0
    /\ url[1] \in {Scheme, EscapedScheme, QuotedScheme, "https%253A%252F%252F"}

\* The matches of every pattern, each as the string put in urls_set (in
\* urls for GoogleCrawler), with the position of the match.
Matches(html, c) ==
    CASE c = "bing" ->
            { [m EXCEPT !.url = _unescape_bing_json_url(m.url)] :
                  m \in findall_murl(html, 1) }
                \cup findall_https(html, 1)
      [] c = "web" ->
            { [m EXCEPT !.url = _unescape_json_url(m.url)] :
                  m \in { n \in findall_murl(html, 1) \cup findall_https(html, 1) :
                              StartsWithHttp(n.url) } }
      [] c = "google" -> findall_https(html, 1)

\* The substrings that send a URL to the query parser.
extraction_patterns(c) ==
    CASE c = "bing" -> <<"mediaurl=", "imgurl=">>
      [] c = "web" -> <<"mediaurl=", "imgurl=", "murl=", "imageurl=">>
      [] c = "google" -> <<"imgurl=">>

\* The query parameters looked up, in order, each with its "=".
WrapperKeys(c) ==
    CASE c = "bing" -> <<"mediaurl=", "imgurl=", "murl=">>
      [] c = "web" -> extraction_patterns("web")
      [] c = "google" -> <<"imgurl=">>

\* urlparse(url).query: what follows the first "?".
query(url) ==
    IF \E k \in 1..Len(url) : url[k] = "?"
    THEN LET k == CHOOSE k \in 1..Len(url) :
                      url[k] = "?" /\ \A j \in 1..(k - 1) : url[j] # "?"
         IN  SubSeq(url, k + 1, Len(url))
    ELSE <<>>

\* parse_qs(query).get(key): the unquoted first value of the parameter,
\* <<>> when the parameter is absent or blank.
parse_qs(q, key) ==
    IF \E k \in 1..Len(q) : q[k] = key /\ (k = 1 \/ q[k - 1] = "&")
    THEN LET k == CHOOSE k \in 1..Len(q) :
                      /\ q[k] = key /\ (k = 1 \/ q[k - 1] = "&")
                      /\ \A j \in 1..(k - 1) :
                             ~(q[j] = key /\ (j = 1 \/ q[j - 1] = "&"))
         IN  unquote(SubSeq(q, k + 1, RunEnd(q, k + 1, {"&"})))
    ELSE <<>>

RECURSIVE Resolve(_, _, _)
\* The for loop over the keys from the k-th on: the value of the first key
\* whose value starts with "http", the URL itself when there is none.
Resolve(url, c, k) ==
    IF k > Len(WrapperKeys(c)) THEN url
    ELSE LET val == parse_qs(query(url), WrapperKeys(c)[k])
         IN  IF StartsWithHttp(val)
             THEN CASE c = "bing" -> _unescape_bing_json_url(val)
                    [] c = "web" -> _unescape_json_url(val)
                    [] c = "google" -> val
             ELSE Resolve(url, c, k + 1)

\* What one URL of urls_set adds to normalized.
Normalize(url, c) ==
    IF \E p \in Range(extraction_patterns(c)) : p \in Range(url)
    THEN Resolve(url, c, 1)
    ELSE url

\* The denylist of substrings; "/logo" is on the list of all three.
IsNoise(url) == "/logo" \in Range(url)

\* The matches whose URL reaches the candidate list, each with the
\* normalized URL.
Discovered(html, c) ==
    { n \in { [m EXCEPT !.url = Normalize(m.url, c)] : m \in Matches(html, c) } :
          ~IsNoise(n.url) }

\* The set called normalized, after the filter.
candidates(html, c) == { m.url : m \in Discovered(html, c) }

\* The returned list: the filter and the duplicate-removing loop keep the
\* order in which the set normalized is iterated.
unique_urls(html, c) == Perms(candidates(html, c))

\* found_urls: len(urls_set), len(urls) for GoogleCrawler.
found_urls(html, c) ==
    IF c = "google" THEN Cardinality(Matches(html, c))
    ELSE Cardinality({ m.url : m \in Matches(html, c) })

\* The URLs written in the texts.
Direct(file) == <<Scheme, "x.test", "/", file>>
Logo == <<Scheme, "x.test", "/logo">>
quote(url) ==
    [k \in 1..Len(url) |->
        CASE url[k] = Scheme -> QuotedScheme
          [] url[k] = QuotedScheme -> "https%253A%252F%252F"
          [] url[k] = "/" -> "%2F"
          [] url[k] = "%2F" -> "%252F"
          [] url[k] = "/logo" -> "%2Flogo"
          [] url[k] = "?" -> "%3F"
          [] url[k] = "%3F" -> "%253F"
          [] url[k] = "imgurl=" -> "imgurl%3D"
          [] url[k] = "imgurl%3D" -> "imgurl%253D"
          [] OTHER -> url[k]]
Wrapper(target) ==
    <<Scheme, "redirect.test", "/", "view", "?", "imgurl=">> \o quote(target)
\* json.dumps with the "/" escaped, as the pages embed their JSON.
Escaped(url) ==
    [k \in 1..Len(url) |->
        CASE url[k] = "/" -> "\\/"
          [] url[k] = Scheme -> EscapedScheme
          [] OTHER -> url[k]]
\* The same with the scheme left as it is.
EscapedPath(url) == [k \in 1..Len(url) |-> IF url[k] = "/" THEN "\\/" ELSE url[k]]

InText(url) == url \o <<Blank>>
InField(url) == <<MurlField>> \o url \o <<Quote, Blank>>

\* A redirector URL whose only parameter is murl.
MurlWrapper(target) ==
    <<Scheme, "redirect.test", "/", "view", "?", "murl=">> \o quote(target)

Occurrences ==
    { InText(Direct("a.jpg")), InText(Direct("b.png")), InText(Logo),
      InText(Wrapper(Direct("b.png"))),
      InText(MurlWrapper(Direct("b.png"))),
      InText(Wrapper(Wrapper(Direct("a.jpg")))),
      InField(Direct("a.jpg")),
      InField(EscapedPath(Direct("b.png"))),
      InField(Escaped(Direct("a.jpg"))) }

RECURSIVE Texts(_)
Texts(n) ==
    IF n = 0 THEN {<<>>}
    ELSE Texts(n - 1) \cup { t \o o : t \in Texts(n - 1), o \in Occurrences }

RECURSIVE Join(_)
\* The returned URLs as a text, one URL a line.
Join(urls) == IF urls = <<>> THEN <<>> ELSE InText(Head(urls)) \o Join(Tail(urls))

\* A crawler is handed a page.
InitExtract ==
    /\ catalog = {}
    /\ nextId = 1
    /\ run = [r \in Workers |-> InitRun(r)]
    /\ last = NoCall
    /\ fetch = NoFetch
    /\ job = [r \in Workers |-> NoJob]
    /\ rate = NoRate
    /\ world = [urls |-> {}, crawlers |-> {}]
    /\ helper \in { [pc |-> "page", crawler |-> c, html |-> t, urls |-> <<>>,
                     again |-> <<>>, stats |-> [found_urls |-> 0, unique_urls |-> 0]] :
                        c \in Extractors, t \in Texts(MaxOccurrences) }

\* urls = self._extract_urls_from_html(html)
ExtractUrls ==
    /\ helper.pc = "page"
    /\ \E urls \in unique_urls(helper.html, helper.crawler) :
           helper' = [helper EXCEPT !.pc = "extracted", !.urls = urls,
                         !.stats = [found_urls |-> found_urls(helper.html, helper.crawler),
                                    unique_urls |-> Len(urls)]]
    /\ UNCHANGED <<catalog, nextId, run, last, fetch, world, job, rate>>

\* The returned URLs are handed to the same crawler as a page.
ExtractAgain ==
    /\ helper.pc = "extracted"
    /\ \E urls \in unique_urls(Join(helper.urls), helper.crawler) :
           helper' = [helper EXCEPT !.pc = "again", !.again = urls,
                         !.stats = [found_urls |-> found_urls(Join(helper.urls), helper.crawler),
                                    unique_urls |-> Len(urls)]]
    /\ UNCHANGED <<catalog, nextId, run, last, fetch, world, job, rate>>

NextExtract ==
    \/ ExtractUrls
    \/ ExtractAgain

SpecExtract == InitExtract /\ [][NextExtract]_vars

(***************************************************************************)
(* Extension inference: _infer_extension_from_content_type with its two   *)
(* callers, _generate_filename and _save_image_record, in BingCrawler,    *)
(* WebScapingWorker and GoogleCrawler.  A content type is a sequence of   *)
(* tokens: the type with its "/", the subtype, what follows the subtype.  *)
(***************************************************************************)
\* dict.items() of mapping, in insertion order.
mapping(c) ==
    LET common == << <<"image/", "jpeg", "jpg">>, <<"image/", "jpg", "jpg">>,
                     <<"image/", "png", "png">>, <<"image/", "webp", "webp">>,
                     <<"image/", "gif", "gif">>, <<"image/", "bmp", "bmp">>,
                     <<"image/", "tiff", "tiff">>, <<"image/", "svg+xml", "svg">> >>
    IN  IF c = "web" THEN common \o << <<"image/", "avif", "avif">> >> ELSE common

\* str.lower, one token at a time.
lower(content_type) ==
    [k \in 1..Len(content_type) |->
        CASE content_type[k] = "IMAGE/" -> "image/"
          [] content_type[k] = "PNG" -> "png"
          [] OTHER -> content_type[k]]

\* content_type.lower().startswith(key), key being a type and a subtype.
StartsWithKey(content_type, key) ==
    /\ Len(content_type) >= 2
    /\ lower(content_type)[1] = key[1]
    /\ lower(content_type)[2] = key[2]

RECURSIVE FirstKey(_, _, _)
\* The for loop over mapping.items() from the k-th item on.
FirstKey(content_type, c, k) ==
    IF k > Len(mapping(c)) THEN None
    ELSE IF StartsWithKey(content_type, mapping(c)[k]) THEN mapping(c)[k][3]
    ELSE FirstKey(content_type, c, k + 1)

_infer_extension_from_content_type(content_type, c) ==
    IF content_type = <<>> THEN None ELSE FirstKey(content_type, c, 1)

\* The extension _generate_filename puts at the end of the name.
_generate_filename(content_type, c) ==
    LET ext == _infer_extension_from_content_type(content_type, c)
    IN  IF ext = None THEN "jpg" ELSE ext

\* The format _save_image_record puts in the record.
_save_image_record_format(content_type, c) ==
    _infer_extension_from_content_type(content_type, c)

\* content_type and content_type.lower().startswith("image/")
StartsWithImage(content_type) ==
    Len(content_type) >= 1 /\ lower(content_type)[1] = "image/"

\* What the Content-Type header of a probed URL can hold; <<>> is no header.
Subtypes == {"jpeg", "jpg", "png", "webp", "gif", "bmp", "tiff", "svg+xml", "avif",
             "x-icon", "heic"}
ContentTypeHeaders ==
    { <<"image/", s>> : s \in Subtypes }
        \cup { <<>>, <<"IMAGE/", "PNG">>, <<"image/", "jpeg", "; charset=binary">>,
               <<"text/", "html">>, <<"text/", "html", "; charset=utf-8">> }

\* A crawl loop has probed a candidate.
InitNaming ==
    /\ catalog = {}
    /\ nextId = 1
    /\ run = [r \in Workers |-> InitRun(r)]
    /\ last = NoCall
    /\ fetch = NoFetch
    /\ job = [r \in Workers |-> NoJob]
    /\ rate = NoRate
    /\ world = [urls |-> {}, crawlers |-> {}]
    /\ helper \in { [pc |-> "probed", crawler |-> c, content_type |-> t,
                     extension |-> None, format |-> None] :
                        c \in Extractors, t \in ContentTypeHeaders }

\* if not content_type or not content_type.lower().startswith("image/"): continue
Verify ==
    /\ helper.pc = "probed"
    /\ helper' = [helper EXCEPT !.pc = IF StartsWithImage(helper.content_type)
                                       THEN "image" ELSE "skipped"]
    /\ UNCHANGED <<catalog, nextId, run, last, fetch, world, job, rate>>

\* filename = self._generate_filename(url, query, content_type)
GenerateFilename ==
    /\ helper.pc = "image"
    /\ helper' = [helper EXCEPT !.pc = "named",
                     !.extension = _generate_filename(helper.content_type, helper.crawler)]
    /\ UNCHANGED <<catalog, nextId, run, last, fetch, world, job, rate>>

\* image_id = self._save_image_record(url, filename, query, content_type)
SaveRecord ==
    /\ helper.pc = "named"
    /\ helper' = [helper EXCEPT !.pc = "saved",
                     !.format = _save_image_record_format(helper.content_type, helper.crawler)]
    /\ UNCHANGED <<catalog, nextId, run, last, fetch, world, job, rate>>

NextNaming ==
    \/ Verify
    \/ GenerateFilename
    \/ SaveRecord

SpecNaming == InitNaming /\ [][NextNaming]_vars

(***************************************************************************)
(* The wait between the attempts of WebScapingWorker.fetch_html:          *)
(* _apply_retry_strategy in the retry branches of the loop.  Delays are   *)
(* whole seconds.                                                          *)
(***************************************************************************)
MaxAttempts == 4    \* the largest max_retries a call is given
MaxDelay == 2       \* the largest retry_delay a call is given

\* retry_strategy as set_retry_strategy leaves it; "unset" is the worker
\* on which set_retry_strategy was never called (hasattr is false).
Strategies == {"unset", "exponential", "linear", "random"}

\* The values _apply_retry_strategy can return.
_apply_retry_strategy(retry_strategy, attempt, base_delay) ==
    CASE retry_strategy = "exponential" -> {base_delay * (2 ^ attempt)}
      [] retry_strategy = "linear" -> {base_delay * (attempt + 1)}
      [] retry_strategy = "random" -> base_delay..(base_delay * 3)
      [] OTHER -> {base_delay * (attempt + 1)}

\* The statuses the loop of fetch_html retries through _apply_retry_strategy.
RetriedStatuses == {"403", "429", "500"}

\* fetch_html is called on a worker and sends its first request.
InitBackoff ==
    /\ catalog = {}
    /\ nextId = 1
    /\ run = [r \in Workers |-> InitRun(r)]
    /\ last = NoCall
    /\ fetch = NoFetch
    /\ job = [r \in Workers |-> NoJob]
    /\ rate = NoRate
    /\ world = [urls |-> {}, crawlers |-> {}]
    /\ helper \in { [pc |-> "request", retry_strategy |-> s, max_retries |-> n,
                     retry_delay |-> d, attempt |-> 0, answer |-> None,
                     wait_time |-> Never, result |-> None] :
                        s \in Strategies, n \in 1..MaxAttempts, d \in 1..MaxDelay }

\* The request of the current attempt is answered: the body is returned,
\* or the wait is computed and slept, or the call fails.
BackoffAnswered(answer) ==
    /\ helper.pc = "request"
    /\ IF answer = "200"
       THEN helper' = [helper EXCEPT !.pc = "done", !.answer = answer, !.result = "body"]
       ELSE IF HasRetry(helper.attempt, helper.max_retries)
       THEN \E wait_time \in _apply_retry_strategy(helper.retry_strategy, helper.attempt,
                                                   helper.retry_delay) :
                helper' = [helper EXCEPT !.pc = "sleeping", !.answer = answer,
                                         !.wait_time = wait_time]
       ELSE helper' = [helper EXCEPT !.pc = "done", !.answer = answer]
    /\ UNCHANGED <<catalog, nextId, run, last, fetch, world, job, rate>>

\* await asyncio.sleep(wait_time) returns; "continue" sends the next request.
BackoffSlept ==
    /\ helper.pc = "sleeping"
    /\ helper' = [helper EXCEPT !.pc = "request", !.attempt = @ + 1]
    /\ UNCHANGED <<catalog, nextId, run, last, fetch, world, job, rate>>

NextBackoff ==
    \/ \E answer \in RetriedStatuses \cup {"200"} : BackoffAnswered(answer)
    \/ BackoffSlept

SpecBackoff == InitBackoff /\ [][NextBackoff]_vars

(***************************************************************************)
(* The content probe: _head_content_type, the same code in BingCrawler,   *)
(* WebScapingWorker and GoogleCrawler.                                     *)
(***************************************************************************)
\* The status codes a probed server answers with.
ProbeStatuses == {200, 206, 399, 400, 404, 405, 503}

\* headers.get("content-type"): None when the header is absent.
HeaderValues == {"image/jpeg", "text/html", None}

\* What awaiting a request of the client gives: a response, or an
\* exception of the client (a timeout, a refused connection).
Outcomes ==
    { [raised |-> FALSE, status_code |-> s, content_type |-> t] :
          s \in ProbeStatuses, t \in HeaderValues }
        \cup { [raised |-> TRUE, status_code |-> Never, content_type |-> None] }

\* The fallback condition with its second disjunct missing.
NeedsFallback_405_only(status_code) == status_code = 405

\* head.status_code == 405 or head.status_code >= 400
NeedsFallback(status_code) == status_code = 405 \/ status_code >= 400

\* No request was answered.
NoOutcome == [raised |-> FALSE, status_code |-> Never, content_type |-> None]

\* A crawler is about to probe a URL, with or without a client.
InitProbe ==
    /\ catalog = {}
    /\ nextId = 1
    /\ run = [r \in Workers |-> InitRun(r)]
    /\ last = NoCall
    /\ fetch = NoFetch
    /\ job = [r \in Workers |-> NoJob]
    /\ rate = NoRate
    /\ world = [urls |-> {}, crawlers |-> {}]
    /\ helper \in { [pc |-> "call", crawler |-> c, client |-> client, sent |-> <<>>,
                     head |-> NoOutcome, get |-> NoOutcome, result |-> None,
                     raised |-> None] :
                        c \in Extractors, client \in BOOLEAN }

\* _head_content_type is called: without a client it returns None, with
\* one it sends the HEAD request.
ProbeCall ==
    /\ helper.pc = "call"
    /\ helper' = IF helper.client
                 THEN [helper EXCEPT !.pc = "head", !.sent = <<"HEAD">>]
                 ELSE [helper EXCEPT !.pc = "done"]
    /\ UNCHANGED <<catalog, nextId, run, last, fetch, world, job, rate>>

\* await self.client.head(url) is over.
HeadAnswered(head) ==
    /\ helper.pc = "head"
    /\ helper' =
         IF head.raised
         THEN [helper EXCEPT !.pc = "done", !.head = head]
         ELSE IF NeedsFallback(head.status_code)
         THEN [helper EXCEPT !.pc = "get", !.head = head,
                             !.sent = Append(@, "GET Range: bytes=0-0")]
         ELSE [helper EXCEPT !.pc = "done", !.head = head, !.result = head.content_type]
    /\ UNCHANGED <<catalog, nextId, run, last, fetch, world, job, rate>>

\* await self.client.get(url, headers={"Range": "bytes=0-0"}) is over.
RangeAnswered(get) ==
    /\ helper.pc = "get"
    /\ helper' =
         IF get.raised \/ get.status_code >= 400
         THEN [helper EXCEPT !.pc = "done", !.get = get]
         ELSE [helper EXCEPT !.pc = "done", !.get = get, !.result = get.content_type]
    /\ UNCHANGED <<catalog, nextId, run, last, fetch, world, job, rate>>

NextProbe ==
    \/ ProbeCall
    \/ \E head \in Outcomes : HeadAnswered(head)
    \/ \E get \in Outcomes : RangeAnswered(get)

SpecProbe == InitProbe /\ [][NextProbe]_vars

(***************************************************************************)
(* The lookup specification: records saved by a crawler and looked up      *)
(* again.  Here a URL is the string the crawler holds, in four tokens:     *)
(* scheme, host, port and path.  (In the other specifications a URL number *)
(* stands for a string that the validation of ImageResourceCreate leaves   *)
(* as it is.)                                                              *)
(***************************************************************************)
MaxSaved == 2       \* records the lookup specification creates

Schemes == {"https://", "HTTPS://"}
Hosts == {"x.test", "X.test"}
Ports == {"", ":443", ":8443"}
Paths == {"", "/a.jpg"}

\* The URL strings a page can hold.
UrlStrings == { <<s, h, p, f>> : s \in Schemes, h \in Hosts, p \in Ports, f \in Paths }

\* ImageResourceBase.url: HttpUrl, and str() of it in create_image_resource:
\* the validated URL is written with scheme and host in lower case, without
\* the default port of the scheme, and with the path / when it has none.
HttpUrl(url) ==
    << IF url[1] = "HTTPS://" THEN "https://" ELSE url[1],
       IF url[2] = "X.test" THEN "x.test" ELSE url[2],
       IF url[3] = ":443" THEN "" ELSE url[3],
       IF url[4] = "" THEN "/" ELSE url[4] >>

\* ImageResourceService.get_image_resource: the id of the row, or NoId.
get_image_resource(cat, id) ==
    IF \E rec \in cat : rec.id = id THEN id ELSE NoId

\* _save_image_record: ImageResourceCreate(url=image_url, ...) validates the
\* URL and create_image_resource stores str(image_data.url); any exception
\* is caught and None returned.
_save_image_record(cat, id, image_url, dbOk) ==
    create_image_resource(cat, id, HttpUrl(image_url), dbOk)

\* No record has been saved yet.
NoLookup == [pc |-> "idle", url |-> <<>>, id |-> NoId, by_id |-> NoId, exists |-> FALSE]

InitLookup ==
    /\ catalog = {}
    /\ nextId = 1
    /\ run = [r \in Workers |-> InitRun(r)]
    /\ last = NoCall
    /\ fetch = NoFetch
    /\ job = [r \in Workers |-> NoJob]
    /\ rate = NoRate
    /\ world = [urls |-> UrlStrings, crawlers |-> {"bing"}]
    /\ helper = NoLookup

\* A run saves the record of a candidate its existence check did not find.
LookupSave(image_url) ==
    /\ helper.pc \in {"idle", "looked_up"}
    /\ nextId <= MaxSaved
    /\ ~_check_image_exists(catalog, image_url, TRUE)
    /\ \E dbOk \in BOOLEAN :
         LET res == _save_image_record(catalog, nextId, image_url, dbOk) IN
         /\ catalog' = res.cat
         /\ nextId' = IF res.id # NoId THEN nextId + 1 ELSE nextId
         /\ helper' = [NoLookup EXCEPT !.pc = "saved", !.url = image_url, !.id = res.id]
    /\ UNCHANGED <<run, last, fetch, world, job, rate>>

\* The record is read by its id, and a later run makes its existence check
\* of the same URL string.
LookupAgain ==
    /\ helper.pc = "saved"
    /\ helper' = [helper EXCEPT !.pc = "looked_up",
                                !.by_id = get_image_resource(catalog, helper.id),
                                !.exists = _check_image_exists(catalog, helper.url, TRUE)]
    /\ UNCHANGED <<catalog, nextId, run, last, fetch, world, job, rate>>

NextLookup ==
    \/ \E image_url \in URLS : LookupSave(image_url)
    \/ LookupAgain

SpecLookup == InitLookup /\ [][NextLookup]_vars

(***************************************************************************)
(* The multiple-sources specification: one call of                         *)
(* WebScapingWorker.crawl_multiple_sources.  A crawl of a source is taken  *)
(* by what it returns and by the errors it counts on the instance.         *)
(***************************************************************************)
MaxSources == 3         \* sources in the list of one call
MaxSourceErrors == 1    \* errors one crawl invocation counts

\* What the crawl of one source comes to: it returns success True, it
\* returns success False (the page was not fetched), or an exception leaves
\* it (a source without "url" raises KeyError).
SourceOutcomes == {"success", "failed_to_fetch_html", "raised"}

NoTotals ==
    [sources_processed |-> 0, total_saved |-> 0, total_downloaded |-> 0, total_errors |-> 0]

\* The body of the loop of crawl_multiple_sources for a result of crawl:
\* result["stats"] is self.stats, the counters of the instance.
Totalled(total_stats, result, stats) ==
    IF result.success
    THEN [sources_processed |-> total_stats.sources_processed + 1,
          total_saved |-> total_stats.total_saved + result.saved,
          total_downloaded |-> total_stats.total_downloaded + result.downloaded,
          total_errors |-> total_stats.total_errors + stats.errors]
    ELSE total_stats

\* The except clause of the loop.
SourceRaised(total_stats) == [total_stats EXCEPT !.total_errors = @ + 1]

InitMultiple ==
    /\ catalog = {}
    /\ nextId = 1
    /\ run = [r \in Workers |-> InitRun(r)]
    /\ last = NoCall
    /\ fetch = NoFetch
    /\ job = [r \in Workers |-> NoJob]
    /\ rate = NoRate
    /\ world = [urls |-> 1..NumUrls, crawlers |-> {"web"}]
    /\ helper \in { [pc |-> "sources", sources |-> n, all_results |-> <<>>, raised |-> 0,
                     stats |-> [errors |-> 0], total_stats |-> NoTotals,
                     result |-> None] : n \in 0..MaxSources }

\* The crawl of the next source of the list ends: it counted errors on the
\* instance and returned its result, or raised.  all_results keeps, beside
\* the result, the errors this invocation counted.
SourceCrawled(outcome, saved, downloaded, errors) ==
    /\ helper.pc = "sources"
    /\ Len(helper.all_results) + helper.raised < helper.sources
    /\ downloaded <= saved
    /\ outcome # "success" => saved = 0
    /\ outcome = "raised" => errors = 0
    /\ LET stats == [errors |-> helper.stats.errors + errors]
           result == [success |-> outcome = "success", saved |-> saved,
                      downloaded |-> downloaded, errors |-> errors]
       IN  helper' =
             IF outcome = "raised"
             THEN [helper EXCEPT !.raised = @ + 1,
                                 !.total_stats = SourceRaised(@)]
             ELSE [helper EXCEPT !.stats = stats,
                                 !.all_results = Append(@, result),
                                 !.total_stats = Totalled(@, result, stats)]
    /\ UNCHANGED <<catalog, nextId, run, last, fetch, world, job, rate>>

\* The list is exhausted: the totals are returned.
MultipleReturns ==
    /\ helper.pc = "sources"
    /\ Len(helper.all_results) + helper.raised = helper.sources
    /\ helper' = [helper EXCEPT !.pc = "returned", !.result = helper.total_stats]
    /\ UNCHANGED <<catalog, nextId, run, last, fetch, world, job, rate>>

NextMultiple ==
    \/ \E outcome \in SourceOutcomes, saved, downloaded \in 0..MaxLinks,
          errors \in 0..MaxSourceErrors :
         SourceCrawled(outcome, saved, downloaded, errors)
    \/ MultipleReturns

SpecMultiple == InitMultiple /\ [][NextMultiple]_vars

(***************************************************************************)
(* Properties.                                                             *)
(***************************************************************************)
UrlOf(r) == run[r].urls[run[r].idx]

\* The pipeline is past the save of its current candidate.
PastSave(r) == run[r].pc \in {"downloading", "mark", "sleeping"}

\* C1: in every reachable state no two records of the catalog have the
\* same URL, however the creating requests and the saves of concurrent
\* crawl runs interleave.
C1_UrlUnique == \A a, b \in catalog : a.url = b.url => a = b

\* C1 witness: a run's insert of a URL was refused by the constraint while
\* the record of that URL was created by the other run.
C1_RefusedDuplicate ==
    \E r \in Crawlers, o \in Crawlers :
        /\ r # o
        /\ PastSave(r)
        /\ run[r].save_raised = "IntegrityError"
        /\ get_image_resource_by_url(catalog, UrlOf(r)) \in run[o].created

\* C2: after a save of URL u that met no database failure, exactly one
\* record has URL u and the save returned that record's identifier, also
\* when the record was there before the call (the second call for u).
C2_SecondCallSameId ==
    \A r \in world.crawlers :
        (PastSave(r) /\ run[r].save_raised # "OperationalError")
        => /\ Cardinality({rec \in catalog : rec.url = UrlOf(r)}) = 1
           /\ run[r].image_id = get_image_resource_by_url(catalog, UrlOf(r))

\* C3: a run whose check truthfully found no record of u, and whose insert
\* comes after the other run's insert of u, gets the other run's record
\* identifier from its save and counts no error.
C3_LoserObservesWinner ==
    [][\A r \in Crawlers :
         (/\ run[r].pc = "save"
          /\ run'[r].pc # "save"
          /\ ~run[r].had_record
          /\ run'[r].save_raised # "OperationalError"
          /\ \E o \in Crawlers \ {r} :
               get_image_resource_by_url(catalog, UrlOf(r)) \in run[o].created)
         => /\ run'[r].image_id = get_image_resource_by_url(catalog, UrlOf(r))
            /\ run'[r].stats.errors = run[r].stats.errors]_vars

\* The transitions of the download status section 4.4 allows.
AllowedTransition(from, to) ==
    \/ from = "pending" /\ to = "downloading"
    \/ from \in {"pending", "downloading"} /\ to \in {"completed", "failed"}

\* C4: a status update of an existing record along an allowed transition
\* sets the status; any other is rejected and leaves the status as it was.
C4_OnlyAllowedTransitions ==
    (last.op = "update_download_status" /\ last.before # None)
    => IF AllowedTransition(last.before, last.to)
       THEN RecordOf(catalog, last.id).download_status = last.to
       ELSE /\ RecordOf(catalog, last.id).download_status = last.before
            /\ last.status # 200

\* C5: a run awaits the download of a candidate only if its check of that
\* candidate returned false and the catalog held no record of the URL at
\* the time of the check.
C5_DownloadOnlyIfAbsent ==
    \A r \in world.crawlers :
        run[r].pc = "downloading" => (~run[r].exists_result /\ ~run[r].had_record)

\* C6: when a crawl invocation returns, none of the records it created is
\* still pending.
C6_NonePendingAtReturn ==
    \A r \in world.crawlers :
        run[r].pc = "done"
        => \A rec \in catalog : rec.id \in run[r].created => rec.download_status # "pending"

\* The attempt count that bounds a fetch: max_retries where the operation
\* takes one; _make_request and search_cars take none, and are held to the
\* largest count the other operations are given.
AttemptLimit(f) == IF f.op \in WebOps THEN f.max_retries ELSE MaxRetries

\* C7: a fetch operation issues no more HTTP requests than its maximum
\* attempt count, whatever the server answers.
C7_AttemptsBounded == fetch.requests <= AttemptLimit(fetch)

All403(seen) == \A i \in 1..Len(seen) : seen[i] = "403"

\* C8: fetch_html or _fetch_vecteezy_html with max_retries = N >= 1, every
\* request answered 403: no more than N requests are issued, and the call
\* returns after exactly N, with None, without raising, one error counted.
C8_AlwaysForbidden ==
    (fetch.op \in WebOps /\ fetch.max_retries >= 1 /\ fetch.requests >= 1
        /\ All403(fetch.seen))
    => IF fetch.pc = "done"
       THEN /\ fetch.requests = fetch.max_retries
            /\ Len(fetch.seen) = fetch.max_retries
            /\ fetch.result = None
            /\ fetch.raised = None
            /\ fetch.stats.errors = 1
       ELSE fetch.requests <= fetch.max_retries

\* C8 witness: fetch_html with three attempts has returned, each answered 403.
C8_ThreeForbidden ==
    /\ fetch.op = "fetch_html"
    /\ fetch.pc = "done"
    /\ fetch.max_retries = 3
    /\ fetch.seen = <<"403", "403", "403">>

\* What the counters of a fetch show beyond those of a call answered 200
\* at once.
RetriesShown(f) ==
    IF f.op \in PexelsOps
    THEN f.stats.errors + f.stats.total_requests - 1
    ELSE f.stats.errors

\* C9: a fetch answered 429 and then 200 returns the body after two
\* requests and its statistics show one retry.
C9_OneRetryRecorded ==
    (fetch.pc = "done" /\ fetch.seen = <<"429", "200">> /\ fetch.body = "body")
    => /\ fetch.result = "body"
       /\ fetch.requests = 2
       /\ RetriesShown(fetch) = 1

C12_StoppedRunIsQuiet ==
    \A r \in world.crawlers :
        job[r].stopped
        => /\ ~job[r].is_running
           /\ run[r].pc \in {"idle", "cancelled", "returned"}
           /\ \A rec \in catalog :
                rec.id \in run[r].created
                => /\ rec.download_status \in {"pending", "completed", "failed"}
                   /\ rec.is_downloaded <=> rec.download_status = "completed"

\* C12 witness: the stop request has returned for a run cancelled while it
\* awaited the download of a record it had created.
C12_StoppedMidDownload ==
    \E r \in world.crawlers :
        /\ job[r].stopped
        /\ run[r].pc = "cancelled"
        /\ run[r].image_id # NoId
        /\ \E rec \in catalog : rec.id = run[r].image_id /\ rec.download_status = "pending"

\* C13: a run that meets a URL whose record is pending or failed goes on to
\* download it again, and creates no record.
C13_AbandonedIsRetried ==
    [][\A r \in world.crawlers :
         (/\ run[r].pc = "check"
          /\ run'[r] # run[r]
          /\ \E rec \in catalog : /\ rec.url = UrlOf(r)
                                  /\ rec.download_status \in {"pending", "failed"})
         => /\ run'[r].pc \in {"probing", "downloading"}
            /\ catalog' = catalog]_vars

\* C15: no counter of a crawler instance decreases while its job runs, from
\* one crawl invocation of the job to the next.
C15_CountersNeverDecrease ==
    [][\A r \in world.crawlers \ {"pexels"} :
         (job[r].task = "crawling" /\ job'[r].task = "crawling")
         => /\ run'[r].stats.image_candidates >= run[r].stats.image_candidates
            /\ run'[r].stats.saved_records >= run[r].stats.saved_records
            /\ run'[r].stats.downloaded >= run[r].stats.downloaded
            /\ run'[r].stats.errors >= run[r].stats.errors]_vars

\* C18: with the secret key or the base URL missing, the start endpoint
\* answers with an error, crawl_car_images makes no request, and no record
\* is written.
C18_ConfigFailsFast ==
    ("pexels" \in world.crawlers /\ ~_validate_config(world))
    => /\ catalog = {}
       /\ run["pexels"].pc \in {"idle", "returned"}
       /\ job["pexels"].task # "crawling"
       /\ (last.op = "start" => last.status = 400)

\* C19: is_running is true only while the task of the run is alive.
C19_RunningOnlyWhileAlive ==
    \A r \in world.crawlers :
        job[r].is_running => job[r].task \in {"created", "crawling", "closing"}

\* C20: the saved counter a status query copies into progress does not
\* count the candidate whose download is awaited.
C20_NoMidPipelineCount ==
    [][\A r \in world.crawlers :
         (/\ last'.op = "status"
          /\ run' = run
          /\ job'[r].progress # job[r].progress
          /\ run[r].pc = "downloading"
          /\ run[r].image_id # NoId)
         => job'[r].progress.saved <= Cardinality(run[r].created \ {run[r].image_id})]_vars

\* C14: of any two consecutive requests of one crawler instance, retries
\* and downloads included, the second goes out no earlier than
\* request_frequency seconds after the first.
C14_MinimumInterval ==
    (rate.pc # "off" /\ rate.gap # Never) => rate.gap >= rate.request_frequency

\* C16: a download that fails, by a non-200 answer or by an exception,
\* counts one error before the record is marked failed.
C16_FailureCounted ==
    [][\A r \in world.crawlers \ {"pexels"} :
         (run[r].pc = "downloading" /\ run'[r].pc = "mark" /\ ~run'[r].ok)
         => run'[r].stats.errors = run[r].stats.errors + 1]_vars

\* C17: a candidate whose save raised is neither downloaded nor marked in
\* this run, in the Pexels crawler as in the others, and the failed save
\* left the catalog without a record of this run for it.
C17_NoDownloadAfterFailedSave ==
    \A r \in world.crawlers :
        (run[r].pc \in {"downloading", "mark", "sleeping"} /\ run[r].save_raised # None)
        => /\ run[r].pc = "sleeping"
           /\ run[r].image_id = NoId
           /\ get_image_resource_by_url(catalog, UrlOf(r)) \notin run[r].created

\* C10: of a crawl started with max_links = n no more than n candidates
\* enter the pipeline, and none when n <= 0.
C10_MaxLinksCaps ==
    \A r \in world.crawlers :
        r = "bing" => run[r].idx <= Max(0, run[r].max_links)

\* C21: extraction with normalization is idempotent: handed its own result
\* as a page (the returned URLs as text), it returns the same set of URLs,
\* also when the target of a wrapper URL is itself a wrapper URL.
C21_ExtractionIdempotent ==
    helper.pc = "again" => Range(helper.again) = Range(helper.urls)

\* The position in the page of the first match that yields the URL.
FirstPos(html, c, url) ==
    CHOOSE p \in { m.pos : m \in Discovered(html, c) } :
        /\ \E m \in Discovered(html, c) : m.url = url /\ m.pos = p
        /\ \A m \in Discovered(html, c) : m.url = url => p <= m.pos

\* C22: the returned list holds no URL twice and keeps the order of
\* discovery: of two returned URLs, the one whose first occurrence in the
\* page is earlier comes earlier in the list.
C22_DiscoveryOrder ==
    helper.pc = "extracted" =>
        \A i, j \in 1..Len(helper.urls) :
            i < j =>
                /\ helper.urls[i] # helper.urls[j]
                /\ FirstPos(helper.html, helper.crawler, helper.urls[i])
                       <= FirstPos(helper.html, helper.crawler, helper.urls[j])

\* The page of the example: the escaped field, then the wrapper URL.
Fixture == InField(Escaped(Direct("a.jpg"))) \o InText(Wrapper(Direct("b.png")))

\* C23: from a page holding "murl":"https:\/\/x.test\/a.jpg" and the
\* wrapper URL https://redirect.test/view?imgurl=https%3A%2F%2Fx.test%2Fb.png
\* BingCrawler and WebScapingWorker return exactly https://x.test/a.jpg and
\* https://x.test/b.png.
C23_FixtureYieldsBoth ==
    (/\ helper.pc = "extracted"
     /\ helper.html = Fixture
     /\ helper.crawler \in {"bing", "web"}) =>
        Range(helper.urls) = {Direct("a.jpg"), Direct("b.png")}


\* C24: in every crawler a record is created and a download attempted for
\* a URL only after the probe of that URL, in that run, returned a content
\* type beginning with image/.
C24_OnlyProbedImages ==
    \A r \in world.crawlers :
        run[r].pc \in {"save", "downloading", "mark"} => IsImage(run[r].content_type)

\* The extension the mapping of the specification gives a media type.
ExpectedExtension(content_type) ==
    LET subtype == lower(content_type)[2]
    IN  CASE subtype = "jpeg" -> "jpg"
          [] subtype = "svg+xml" -> "svg"
          [] subtype \in {"png", "webp", "gif", "bmp", "tiff", "avif"} -> subtype
          [] OTHER -> "jpg"

\* C25: for every image content type the inferred extension is jpg for
\* image/jpeg, png, webp, gif, bmp, tiff for their types, svg for
\* image/svg+xml, avif for image/avif and jpg for every other image type,
\* and the record's stored format is the extension of the filename, in
\* every crawler.
C25_ExtensionAndFormat ==
    helper.pc = "saved" =>
        /\ helper.extension = ExpectedExtension(helper.content_type)
        /\ helper.format = helper.extension

\* C26: after update_download_status(id, "completed") the record's
\* is_downloaded is true, and no later operation on the record
\* (update_download_status to any status, update_image_resource) sets it
\* back to false; after update_download_status(id, "failed", msg) the
\* record's error_message is msg.
C26_DownloadedFlagSticks ==
    [][/\ \A id \in 1..MaxUpdated :
            (StorePatch(id, "completed", None) /\ HasId(catalog, id)) =>
                RecordOf(catalog', id).is_downloaded
       /\ \A id \in 1..MaxUpdated, msg \in ErrorMessages :
            (StorePatch(id, "failed", msg) /\ HasId(catalog, id)) =>
                RecordOf(catalog', id).error_message = msg
       /\ \A rec \in catalog :
            (rec.is_downloaded /\ HasId(catalog', rec.id)) =>
                RecordOf(catalog', rec.id).is_downloaded]_vars

\* C27: the url of an existing record never changes: whatever the step,
\* a record that is still in the catalog after it has the url it had.
C27_UrlImmutable ==
    [][\A rec \in catalog :
           HasId(catalog', rec.id) => RecordOf(catalog', rec.id).url = rec.url]_vars

\* C27 witness: a PUT whose body carried a url was answered 200, and a
\* status update of the same record was made before it.
C27_PutWithUrlAnswered ==
    /\ last.op = "update_image_resource"
    /\ "url" \in last.keys
    /\ last.status = 200
    /\ HasId(catalog, last.id)
    /\ RecordOf(catalog, last.id).download_status = "failed"

\* C28: in fetch_html and in _fetch_vecteezy_html an answer 429 or 5xx on
\* an attempt that is not the last causes another attempt: a call ends on
\* such an answer only when it was the answer to attempt max_retries.
C28_ServerErrorsRetried ==
    (/\ fetch.pc = "done"
     /\ fetch.op \in WebOps
     /\ fetch.seen # <<>>
     /\ fetch.seen[Len(fetch.seen)] \in {"429", "500", "501"}) =>
        Len(fetch.seen) = fetch.max_retries

\* C29: on a worker in its default configuration the wait before the
\* retry that follows attempt k (counted from 0) after a 429 or a 5xx is
\* at least base * 2^k, for every k < N - 1.
C29_ExponentialWait ==
    (/\ helper.pc = "sleeping"
     /\ helper.retry_strategy = "unset"
     /\ helper.answer \in {"429", "500"}) =>
        helper.wait_time >= helper.retry_delay * (2 ^ helper.attempt)

\* C30: the probe sends the header-only request first; it sends the ranged
\* request exactly when the header-only answer has a status of 400 or
\* more; it returns the content type of the header-only answer when that
\* status is below 400, the content type of the ranged answer when its
\* status is below 400, and None when the ranged answer has a status of 400
\* or more or a request raised; it sends at most two requests and raises
\* nothing.
C30_ProbeContract ==
    /\ Len(helper.sent) <= 2
    /\ helper.raised = None
    /\ Len(helper.sent) >= 1 => helper.sent[1] = "HEAD"
    /\ helper.pc = "done" =>
        /\ Len(helper.sent) = 2 <=>
               (~helper.head.raised /\ helper.head.status_code >= 400)
        /\ Len(helper.sent) = 2 => helper.sent[2] = "GET Range: bytes=0-0"
        /\ (Len(helper.sent) >= 1 /\ ~helper.head.raised /\ helper.head.status_code < 400) =>
               helper.result = helper.head.content_type
        /\ (Len(helper.sent) = 2 /\ ~helper.get.raised /\ helper.get.status_code < 400) =>
               helper.result = helper.get.content_type
        /\ (Len(helper.sent) = 2 /\ ~helper.get.raised /\ helper.get.status_code >= 400) =>
               helper.result = None
        /\ (helper.head.raised \/ helper.get.raised) => helper.result = None

\* C30 witness: the header-only request was refused with 404, the ranged
\* request answered 206 with an image type, and the probe returned it.
C30_FallbackReturnsType ==
    /\ helper.pc = "done"
    /\ helper.sent = <<"HEAD", "GET Range: bytes=0-0">>
    /\ helper.head.status_code = 404
    /\ helper.get.status_code = 206
    /\ helper.result = "image/jpeg"

\* The wrapper parameter names of the specification, each with its "=".
WrapperParameters == <<"mediaurl=", "imgurl=", "murl=">>

RECURSIVE Target(_, _)
\* The decoded value of the first wrapper parameter, from the k-th on, that
\* the query of the URL carries with a value starting with http; the URL
\* itself when there is none.
Target(url, k) ==
    IF k > Len(WrapperParameters) THEN url
    ELSE IF StartsWithHttp(parse_qs(query(url), WrapperParameters[k]))
    THEN parse_qs(query(url), WrapperParameters[k])
    ELSE Target(url, k + 1)

\* C31: every extracted URL whose query carries one of the wrapper
\* parameters mediaurl, imgurl, murl with a value starting with http is
\* replaced by the decoded value, every other URL is kept: the returned
\* URLs are the targets of the extracted ones, noise left out.  A URL
\* whose only wrapper parameter is murl is resolved.
C31_WrappersResolved ==
    helper.pc = "extracted" =>
        Range(helper.urls) =
            { u \in { Target(m.url, 1) : m \in Matches(helper.html, helper.crawler) } :
                  ~IsNoise(u) }


\* The default of the start parameter first of start_bing_crawler (start of
\* the Google route, with default 0).
first == 1

\* run_crawler: the cursor of invocation j.i.
current_first(j) == first + j.i * j.max_links

\* A crawl invocation of the job of r returned into run_crawler.
InvocationReturned(r) ==
    /\ job[r].task = "crawling"
    /\ job'[r].i = job[r].i + 1

\* C32: a Bing job (the Google route is the same code) that is neither
\* cancelled nor left by an exception performs exactly max(1, loops) crawl
\* invocations; the cursor first + i * max_links of the next invocation is
\* greater than the one of the invocation that returned; and the progress
\* in the status is the sum of the results of the invocations so far.
C32_LoopContract ==
    [][\A r \in world.crawlers \cap {"bing"} :
         InvocationReturned(r) =>
           /\ job'[r].progress =
                [saved |-> job[r].progress.saved + run[r].saved,
                 downloaded |-> job[r].progress.downloaded + run[r].downloaded]
           /\ job'[r].outcome = "finished" <=> job'[r].i = Max(1, job[r].loops)
           /\ job'[r].task = "crawling" => current_first(job'[r]) > current_first(job[r])]_vars


\* The tasks of one crawler kind that are created and not done: the task the
\* global holds, and an earlier one still closing its client.
AliveTasks(j) ==
    (IF j.task \in {"created", "crawling", "closing"} THEN 1 ELSE 0)
        + (IF j.leaving THEN 1 ELSE 0)

\* A start request of r is accepted in this step.
Started(r) == job[r].task # "created" /\ job'[r].task = "created"

\* C33: of each crawler kind at most one background task is alive at any
\* time, and a start request is accepted only while no task of the kind is
\* alive; a refused start leaves the status and the task as they were.
C33_OneTaskPerKind ==
    [][\A r \in world.crawlers :
         /\ AliveTasks(job'[r]) <= 1
         /\ Started(r) => AliveTasks(job[r]) = 0
         /\ last' = Answer("start", r, 400) /\ last # last' => job' = job]_vars


\* C34: while is_running, the status dictionary a status request returns
\* holds no outcome of an earlier run: neither error, nor status = stopped,
\* nor final_result.
C34_NoStaleOutcome ==
    \A r \in world.crawlers :
        job[r].is_running =>
            /\ job[r].error = None
            /\ job[r].status = None
            /\ job[r].final_result = None


\* C35: whatever update_download_status calls were made, a record of the
\* catalog has is_downloaded true only if its download_status is completed.
C35_DownloadedOnlyIfCompleted ==
    \A rec \in catalog : rec.is_downloaded => rec.download_status = "completed"


\* The records the run of r created that are completed in cat.
MarkedCompleted(cat, rec) ==
    { row \in cat : row.id \in rec.created /\ row.download_status = "completed" }

\* C36: a record becomes completed only in the status update of the run
\* whose download of it answered 200 and was written, and failed only in
\* the status update of the run whose download of it failed; and the
\* downloaded count a run returns is the number of records it marked
\* completed.
C36_MarksFollowDownloads ==
    [][\A r \in world.crawlers :
         /\ \A row \in catalog' \ catalog :
              row.download_status \in {"completed", "failed"} =>
                  /\ run[r].pc = "mark"
                  /\ run[r].image_id = row.id
                  /\ row.id \in run[r].created
                  /\ run[r].ok <=> row.download_status = "completed"
         /\ run'[r].pc = "done" =>
              run'[r].downloaded = Cardinality(MarkedCompleted(catalog', run'[r]))]_vars


\* C37: a record that create_image_resource returned an id for is found by
\* get_image_resource(id), and the existence check of a later run with the
\* URL string the crawler saved it under finds it too.
C37_SavedIsFound ==
    helper.pc = "looked_up" /\ helper.id # NoId =>
        /\ helper.by_id = helper.id
        /\ helper.exists

\* A record was saved and looked up again.
C37_SavedAndLookedUp == helper.pc = "looked_up" /\ helper.id # NoId /\ helper.exists


\* The sum of field f over the results of the crawls that succeeded.
RECURSIVE SumOver(_, _)
SumOver(results, f) ==
    IF results = <<>> THEN 0
    ELSE (IF Head(results).success \/ f = "errors" THEN Head(results)[f] ELSE 0)
             + SumOver(Tail(results), f)

Succeeded(results) == { k \in 1..Len(results) : results[k].success }

\* C38: crawl_multiple_sources goes through the whole list whatever fails;
\* sources_processed is the number of sources whose crawl succeeded,
\* total_saved and total_downloaded are the sums over those, and
\* total_errors is the number of errors of the call: those the crawls
\* counted and one for each crawl that raised.
C38_TotalsAreSums ==
    helper.pc = "returned" =>
        /\ Len(helper.all_results) + helper.raised = helper.sources
        /\ helper.result.sources_processed = Cardinality(Succeeded(helper.all_results))
        /\ helper.result.total_saved = SumOver(helper.all_results, "saved")
        /\ helper.result.total_downloaded = SumOver(helper.all_results, "downloaded")
        /\ helper.result.total_errors = SumOver(helper.all_results, "errors") + helper.raised


\* Inserting some element of urlList fails: its URL has a record, or it
\* occurs twice in the list.
SomeInsertFails(cat, urlList) ==
    \/ \E i \in 1..Len(urlList) : \E rec \in cat : rec.url = urlList[i]
    \/ \E i, j \in 1..Len(urlList) : i < j /\ urlList[i] = urlList[j]

\* C39: a bulk create in which the insert of some element fails is answered
\* with an error and leaves the catalog as it was; any other bulk create
\* keeps the records there were and adds, for every element of the list,
\* exactly one new record, pending and not downloaded.
C39_BulkAllOrNothing ==
    [][\A urlList \in BulkLists :
         StoreBulk(urlList) =>
             IF SomeInsertFails(catalog, urlList)
             THEN catalog' = catalog /\ last'.status = 500
             ELSE /\ catalog \subseteq catalog'
                  /\ Cardinality(catalog' \ catalog) = Len(urlList)
                  /\ \A i \in 1..Len(urlList) :
                       Cardinality({ rec \in catalog' \ catalog : rec.url = urlList[i] }) = 1
                  /\ \A rec \in catalog' \ catalog :
                       /\ rec.download_status = "pending"
                       /\ ~rec.is_downloaded
                       /\ ~HasId(catalog, rec.id)
                       /\ \E i \in 1..Len(urlList) : rec.url = urlList[i]]_vars

\* A bulk create of two elements was refused though its first element had
\* no record.
C39_PartlyInsertable ==
    /\ last.op = "bulk_create_image_resources"
    /\ last.status = 500
    /\ Len(last.urls) = 2
    /\ catalog # {}
    /\ ~UniqueViolation(catalog, last.urls[1])
    /\ UniqueViolation(catalog, last.urls[2])

====
